---- MODULE Spec2Model ----
(***************************************************************************)
(* A model of the BeepBox song codec of synth/synth.ts: the bit-field      *)
(* reader and writer, the long-tail integer code, the tag-stream URL       *)
(* writer Song.toBase64String and the versioned reader                     *)
(* Song.fromBase64String.                                                  *)
(*                                                                         *)
(* Strings are sequences of character codes.  JavaScript's undefined and   *)
(* NaN (a read past the end of a string or an array, and arithmetic on it) *)
(* are one value, NaN, and the helpers Js* compute with it as the          *)
(* language does.                                                          *)
(***************************************************************************)
EXTENDS Integers, Sequences, FiniteSets, TLC

VARIABLES
    pc,            \* position of the run: which call is next, "done", "error"
    writer,        \* BitFieldWriter: [bits, index]
    reader,        \* BitFieldReader: [bits, readIndex]
    ltIn,          \* the arguments of the writeLongTail call
    ltOut,         \* what readLongTail returned
    input,         \* the Song passed to toBase64String
    url,    \* the string passed to fromBase64String
    decoded,       \* the state fromBase64String left: song, error, cursor
    reurl,  \* a second string: re-encoded, or with records reordered
    redecoded,     \* the state fromBase64String left on the second string
    choice,        \* the reordering applied to the records
    settings,      \* a FilterSettings: [controlPoints, controlPointCount]
    legacyArgs,    \* the arguments of the convertLegacySettings call
    synth,         \* the Synth: its song, playhead, tone queues, instrument states
    calls,         \* the calls made on the synth besides synthesize
    delay,         \* a delay line of the effects: [delayLine, delayPos]
    audio,         \* the Synth's audio source, clock and live-input deadline
    flash,         \* the Flash Synth: paused, soundChannel, timer, stillGoing
    buffer,        \* a synthesize call in its loop: bufferIndex, the countdown
    walk,          \* the pattern encoder and decoder, note by note
    tour           \* the bars a playback has played through, and its repeats

vars == << pc, writer, reader, ltIn, ltOut, input, url, decoded,
          reurl, redecoded, choice, settings, legacyArgs, synth, calls,
          delay, audio, flash, buffer, walk, tour >>

codec == << input, url, decoded, reurl, redecoded, choice >>
bitio == << writer, reader, ltIn, ltOut >>
playback == << settings, legacyArgs, synth, calls, delay, audio, flash,
              buffer, walk, tour >>

----------------------------------------------------------------------------
(* JavaScript numbers *)

NaN == 0 - 2147483647

Pow2(n) == 2 ^ n

MinInt32 == (0 - 2147483647) - 1

ToInt32(x) == IF x = NaN THEN 0 ELSE x

\* a << n, on 32 bits: the shift count is taken modulo 32 and bit 31 is the sign
Shl(a, n) ==
    LET k == n % 32
        v == ToInt32(a)
    IN  IF k = 0 THEN v
        ELSE (v % Pow2(31 - k)) * Pow2(k)
             + (IF (v \div Pow2(31 - k)) % 2 = 1 THEN MinInt32 ELSE 0)

\* (a >>> n) & 1
UShrBit(a, n) == (ToInt32(a) \div Pow2(n % 32)) % 2

\* a >> n
Shr(a, n) == ToInt32(a) \div Pow2(n % 32)

\* a + b
JsAdd(a, b) == IF a = NaN \/ b = NaN THEN NaN ELSE a + b

\* a & m for a mask m = 2^k - 1
JsAndMask(a, m) == ToInt32(a) % (m + 1)

\* if (x) ...
Truthy(x) == x # NaN /\ x # 0

\* array[i] of a sequence holding the elements 0 .. length-1
At(arr, i) == IF i # NaN /\ i >= 0 /\ i < Len(arr) THEN arr[i + 1] ELSE NaN

----------------------------------------------------------------------------
(* Base64 alphabet *)

base64IntToCharCode == <<
    48, 49, 50, 51, 52, 53, 54, 55, 56, 57, 97, 98, 99, 100, 101, 102, 103, 104, 105, 106, 107, 108, 109, 110,
    111, 112, 113, 114, 115, 116, 117, 118, 119, 120, 121, 122, 65, 66, 67, 68, 69, 70, 71, 72, 73, 74, 75, 76,
    77, 78, 79, 80, 81, 82, 83, 84, 85, 86, 87, 88, 89, 90, 45, 95 >>

base64CharCodeToInt == <<
    0, 0, 0, 0, 0, 0, 0, 0, 0, 0, 0, 0, 0, 0, 0, 0, 0, 0, 0, 0, 0, 0, 0, 0,
    0, 0, 0, 0, 0, 0, 0, 0, 0, 0, 0, 0, 0, 0, 0, 0, 0, 0, 0, 0, 0, 62, 62, 0,
    0, 1, 2, 3, 4, 5, 6, 7, 8, 9, 0, 0, 0, 0, 0, 0, 0, 36, 37, 38, 39, 40, 41, 42,
    43, 44, 45, 46, 47, 48, 49, 50, 51, 52, 53, 54, 55, 56, 57, 58, 59, 60, 61, 0, 0, 0, 0, 63,
    0, 10, 11, 12, 13, 14, 15, 16, 17, 18, 19, 20, 21, 22, 23, 24, 25, 26, 27, 28, 29, 30, 31, 32,
    33, 34, 35, 0, 0, 0, 0, 0 >>

SongTagCode ==
    [ beatCount |-> 97,
    bars |-> 98,
    vibrato |-> 99,
    transition |-> 100,
    loopEnd |-> 101,
    filter |-> 102,
    barCount |-> 103,
    interval |-> 104,
    instrumentCount |-> 105,
    patternCount |-> 106,
    key |-> 107,
    loopStart |-> 108,
    reverb |-> 109,
    channelCount |-> 110,
    channelOctave |-> 111,
    patterns |-> 112,
    effects |-> 113,
    rhythm |-> 114,
    scale |-> 115,
    tempo |-> 116,
    preset |-> 117,
    volume |-> 118,
    wave |-> 119,
    filterResonance |-> 121,
    filterEnvelope |-> 122,
    algorithm |-> 65,
    feedbackAmplitude |-> 66,
    chord |-> 67,
    distortion |-> 68,
    operatorEnvelopes |-> 69,
    feedbackType |-> 70,
    distortionFilter |-> 71,
    harmonics |-> 72,
    pan |-> 76,
    operatorAmplitudes |-> 80,
    operatorFrequencies |-> 81,
    bitcrusher |-> 82,
    spectrum |-> 83,
    startInstrument |-> 84,
    sustain |-> 85,
    feedbackEnvelope |-> 86,
    pulseWidth |-> 87 ]

\* source.charCodeAt(i)
CharCodeAt(source, i) == At(source, i)

\* base64CharCodeToInt[source.charCodeAt(i)]
Base64At(source, i) == At(base64CharCodeToInt, CharCodeAt(source, i))

\* base64IntToCharCode[v] as String.fromCharCode renders it: an index outside
\* the table is undefined, which becomes the character code 0
CharOf(v) == LET c == At(base64IntToCharCode, v) IN IF c = NaN THEN 0 ELSE c

----------------------------------------------------------------------------
(* class BitFieldReader *)

\* constructor: six bits, most significant first, for each symbol of
\* source[startIndex .. stopIndex-1]
BitFieldReader(source, startIndex, stopIndex) ==
    LET count == IF stopIndex > startIndex THEN stopIndex - startIndex ELSE 0
        \* bit k, from 1, is (value >> 5) & 1 ... value & 1 of symbol (k - 1) \div 6
        Bit(k) == Shr(Base64At(source, startIndex + ((k - 1) \div 6)), 5 - ((k - 1) % 6)) % 2
    IN  [bits |-> [k \in 1 .. 6 * count |-> Bit(k)], readIndex |-> 0]

\* this._bits[this._readIndex++]
NextBit(r) == At(r.bits, r.readIndex)

Advance(r) == [r EXCEPT !.readIndex = @ + 1]

\* while (bitCount > 0) result = (result << 1) + this._bits[this._readIndex++] :
\* the bits read, most significant first; a bit past the end is undefined and
\* the sum that ends with it is NaN. The counts of the callers are below 31,
\* where << does not wrap.
read(r, bitCount) ==
    LET n == IF bitCount > 0 THEN bitCount ELSE 0
        last == r.readIndex + n - 1
        RECURSIVE Sum(_, _)
        \* bits lo .. hi at their weights
        Sum(lo, hi) == IF lo = hi THEN r.bits[lo + 1] * Pow2(last - lo)
                       ELSE Sum(lo, (lo + hi) \div 2) + Sum((lo + hi) \div 2 + 1, hi)
    IN  [value |-> IF n = 0 THEN 0
                   ELSE IF last >= Len(r.bits) THEN NaN
                   ELSE Sum(r.readIndex, last),
         r |-> [r EXCEPT !.readIndex = @ + n]]

\* the value of call k, from 0, in a run of read(width) calls on a new reader
ReadFixed(r, k, width) ==
    LET RECURSIVE Sum(_, _)
        Sum(i, result) == IF i >= width THEN result
                          ELSE Sum(i + 1, JsAdd(Shl(result, 1), At(r.bits, k * width + i)))
    IN  Sum(0, 0)

\* readLongTail with the terminating 0 of the unary prefix left unread
readLongTailKeepsStop(r, minValue, minBits) ==
    LET RECURSIVE Prefix(_, _, _)
        Prefix(rd, result, numBits) ==
            IF Truthy(NextBit(rd))
            THEN Prefix(Advance(rd), result + Shl(1, numBits), numBits + 1)
            ELSE [r |-> rd, result |-> result, numBits |-> numBits]
        RECURSIVE Low(_, _, _)
        Low(rd, result, numBits) ==
            IF numBits > 0
            THEN Low(Advance(rd),
                      IF Truthy(NextBit(rd)) THEN result + Shl(1, numBits - 1) ELSE result,
                      numBits - 1)
            ELSE [value |-> result, r |-> rd]
        p == Prefix(r, minValue, minBits)
    IN  Low(p.r, p.result, p.numBits)

readLongTail(r, minValue, minBits) ==
    LET RECURSIVE Prefix(_, _, _)
        Prefix(rd, result, numBits) ==
            IF Truthy(NextBit(rd))
            THEN Prefix(Advance(rd), result + Shl(1, numBits), numBits + 1)
            ELSE [r |-> Advance(rd), result |-> result, numBits |-> numBits]
        RECURSIVE Low(_, _, _)
        Low(rd, result, numBits) ==
            IF numBits > 0
            THEN Low(Advance(rd),
                      IF Truthy(NextBit(rd)) THEN result + Shl(1, numBits - 1) ELSE result,
                      numBits - 1)
            ELSE [value |-> result, r |-> rd]
        p == Prefix(r, minValue, minBits)
    IN  Low(p.r, p.result, p.numBits)

\* readPartDuration counting from 0: a duration of no parts can be read
readPartDurationFromZero(r) == readLongTail(r, 0, 3)

readPartDuration(r) == readLongTail(r, 1, 3)

readLegacyPartDuration(r) == readLongTail(r, 1, 2)

readPinCount(r) == readLongTail(r, 1, 0)

\* readPitchInterval with the sign bit read and dropped
readPitchIntervalUnsigned(r) ==
    LET sign == read(r, 1)
        tail == readLongTail(sign.r, 1, 3)
    IN  tail

readPitchInterval(r) ==
    LET sign == read(r, 1)
        tail == readLongTail(sign.r, 1, 3)
    IN  IF Truthy(sign.value) THEN [value |-> 0 - tail.value, r |-> tail.r] ELSE tail

----------------------------------------------------------------------------
(* class BitFieldWriter *)

NewWriter == [bits |-> << >>, index |-> 0, threw |-> FALSE]

\* clear() resets the index and keeps the bits written before
clear(w) == [w EXCEPT !.index = 0]

\* this._bits[this._index++] = b  for each b of the sequence pushed, in turn: a
\* bit under the index is overwritten, the bits behind stay
Push(w, pushed) ==
    [bits |-> SubSeq(w.bits, 1, w.index) \o pushed
              \o SubSeq(w.bits, w.index + Len(pushed) + 1, Len(w.bits)),
     index |-> w.index + Len(pushed),
     threw |-> w.threw]

\* for (i = bitCount - 1; i >= 0; i--) push (value >>> i) & 1 ; nothing is
\* written once writeLongTail has thrown
write(w, bitCount, value) ==
    IF w.threw THEN w
    ELSE Push(w, [k \in 1 .. bitCount |-> UShrBit(value, bitCount - k)])

\* throws "value out of bounds" (threw) when value < minValue
writeLongTail(w, minValue, minBits, value) ==
    LET \* while (value >= (1 << numBits)) push 1, value -= 1 << numBits, numBits++
        RECURSIVE Prefix(_, _)
        Prefix(v, numBits) ==
            IF v >= Shl(1, numBits) THEN Prefix(v - Shl(1, numBits), numBits + 1)
            ELSE [value |-> v, numBits |-> numBits]
        \* while (numBits > 0) numBits--, push (value >>> numBits) & 1
        Low(v, numBits) == [k \in 1 .. numBits |-> UShrBit(v, numBits - k)]
        Written(p) == Push(w, [k \in 1 .. p.numBits - minBits |-> 1] \o << 0 >>
                           \o Low(p.value, p.numBits))
    IN  IF w.threw THEN w
        ELSE IF value = NaN THEN Push(w, << 0 >> \o Low(0, minBits))
        ELSE IF value < minValue THEN [w EXCEPT !.threw = TRUE]
        ELSE Written(Prefix(value - minValue, minBits))

writePartDuration(w, value) == writeLongTail(w, 1, 3, value)

writePinCount(w, value) == writeLongTail(w, 1, 0, value)

writePitchInterval(w, value) ==
    IF value < 0 THEN writeLongTail(write(w, 1, 1), 1, 3, 0 - value)
    ELSE writeLongTail(write(w, 1, 0), 1, 3, value)

concat(w, other) ==
    LET end == w.index + other.index
        length == IF Len(w.bits) > end THEN Len(w.bits) ELSE end
    IN  [bits |-> [k \in 1 .. length |->
                      IF k > w.index /\ k <= end THEN At(other.bits, k - w.index - 1)
                      ELSE w.bits[k]],
         index |-> end, threw |-> w.threw \/ other.threw]

\* encodeBase64(buffer) appends these character codes to buffer; a bit past
\* the end of _bits is undefined and counts as 0 under |
encodeBase64(w) ==
    LET Bit(i) == IF At(w.bits, i) = NaN THEN 0 ELSE At(w.bits, i)
    IN  [k \in 1 .. (w.index + 5) \div 6 |->
            CharOf(32 * Bit(6 * k - 6) + 16 * Bit(6 * k - 5) + 8 * Bit(6 * k - 4)
                   + 4 * Bit(6 * k - 3) + 2 * Bit(6 * k - 2) + Bit(6 * k - 1))]

lengthBase64(w) == (w.index + 5) \div 6

----------------------------------------------------------------------------
(* function clamp, validateRange *)

clamp(min, max, val) ==
    IF val # NaN /\ val <= max - 1
    THEN (IF val >= min THEN val ELSE min)
    ELSE max - 1

\* validateRange throws unless min <= val <= max
InRange(min, max, val) == val # NaN /\ min # NaN /\ max # NaN /\ min <= val /\ val <= max

----------------------------------------------------------------------------
(* Configuration (SynthConfig.ts) *)

Config ==
    [ partsPerBeat |-> 24, ticksPerPart |-> 2, maxChordSize |-> 4,
      scalesLength |-> 12, keysLength |-> 12, tempoMin |-> 30, tempoMax |-> 300,
      reverbRange |-> 8, beatsPerBarMin |-> 3, beatsPerBarMax |-> 16,
      barCountMin |-> 1, barCountMax |-> 128,
      instrumentsPerChannelMin |-> 1, instrumentsPerChannelMax |-> 10,
      pitchChannelCountMin |-> 1, pitchChannelCountMax |-> 6,
      noiseChannelCountMin |-> 0, noiseChannelCountMax |-> 3,
      rhythmStepsPerBeat |-> << 3, 4, 6, 8, 24 >>,
      scrollableOctaves |-> 5, volumeRange |-> 8,
      filterMaxPoints |-> 8, filterFreqRange |-> 34, filterGainRange |-> 15,
      filterGainCenter |-> 7,
      spectrumControlPoints |-> 30, spectrumControlPointBits |-> 3, spectrumMax |-> 7,
      harmonicsControlPoints |-> 28, harmonicsControlPointBits |-> 3, harmonicsMax |-> 7,
      drumCount |-> 12, operatorCount |-> 4, operatorAmplitudeMax |-> 15,
      operatorFrequenciesLength |-> 16, envelopesLength |-> 21,
      transitionsLength |-> 8, chordsLength |-> 4, vibratosLength |-> 5,
      intervalsLength |-> 9, chipWavesLength |-> 9, chipNoisesLength |-> 5,
      algorithmsLength |-> 13, feedbacksLength |-> 18,
      panCenter |-> 4, panMax |-> 8, pulseWidthRange |-> 8, distortionRange |-> 8,
      bitcrusherFreqRange |-> 14, bitcrusherQuantizationRange |-> 8,
      sustainRange |-> 15, maxPitch |-> 84,
      \* Config.envelopes[i].type, by name of the type
      envelopeTypes |-> << "custom", "steady", "punch", "flare", "flare", "flare",
                           "twang", "twang", "twang", "swell", "swell", "swell",
                           "tremolo", "tremolo", "tremolo", "tremolo2", "tremolo2",
                           "tremolo2", "decay", "decay", "decay" >>,
      envelopeTwang2 |-> 7, transitionHard |-> 1, envelopeSteady |-> 1 ]

InstrumentType ==
    [ chip |-> 0, fm |-> 1, noise |-> 2, spectrum |-> 3, drumset |-> 4,
      harmonics |-> 5, pwm |-> 6, guitar |-> 7, length |-> 8 ]

EffectType ==
    [ reverb |-> 0, chorus |-> 1, panning |-> 2, distortion |-> 3,
      bitcrusher |-> 4, length |-> 5 ]

FilterType == [ lowPass |-> 0, highPass |-> 1, peak |-> 2, length |-> 3 ]

\* effectsInclude<Effect>(effects): (effects & (1 << effect)) != 0
effectsInclude(effects, effect) == (ToInt32(effects) \div Pow2(effect)) % 2 = 1

\* effects | (1 << effect)
EffectsWith(effects, effect) ==
    IF effectsInclude(effects, effect) THEN effects ELSE effects + Pow2(effect)

\* effects & ~(1 << effect)
EffectsWithout(effects, effect) ==
    IF effectsInclude(effects, effect) THEN effects - Pow2(effect) ELSE effects

----------------------------------------------------------------------------
(* Song data: Note, Pattern, Operator, SpectrumWave, HarmonicsWave,        *)
(* FilterSettings, Instrument, Channel                                     *)

makeNotePin(interval, time, expression) ==
    [interval |-> interval, time |-> time, expression |-> expression]

\* new Note(pitch, start, end, expression)
Note(pitch, start, end, expression) ==
    [pitches |-> << pitch >>,
     pins |-> << makeNotePin(0, 0, expression), makeNotePin(0, end - start, expression) >>,
     start |-> start, end |-> end]

\* new Pattern(), and Pattern.reset()
NewPattern == [notes |-> << >>, instrument |-> 0]

\* Operator.reset(index), index from 0
OperatorReset(index) ==
    [frequency |-> 0,
     amplitude |-> IF index <= 1 THEN Config.operatorAmplitudeMax ELSE 0,
     envelope |-> IF index = 0 THEN 0 ELSE 1]

\* SpectrumWave.reset(isNoiseChannel): the rounded values of
\* spectrumMax / sqrt(1 + i/3), and of spectrumMax * (1 - i/30) on the harmonics
SpectrumReset(isNoiseChannel) ==
    IF isNoiseChannel
    THEN << 7, 6, 5, 5, 5, 4, 4, 4, 4, 4, 3, 3, 3, 3, 3,
            3, 3, 3, 3, 3, 3, 2, 2, 2, 2, 2, 2, 2, 2, 2 >>
    ELSE << 7, 0, 0, 0, 0, 0, 0, 5, 0, 0, 0, 4, 0, 0, 4,
            0, 3, 0, 3, 0, 0, 2, 0, 2, 0, 1, 1, 1, 0, 0 >>

\* HarmonicsWave.reset()
HarmonicsReset ==
    [i \in 1 .. Config.harmonicsControlPoints |->
        IF i \in {1, 4, 7} THEN Config.harmonicsMax ELSE 0]

\* FilterSettings.reset(): the points stay in the array, the count is 0
FilterReset(filter) == [filter EXCEPT !.controlPointCount = 0]

NewFilter == [controlPoints |-> << >>, controlPointCount |-> 0]

\* arr[i] = v on a JavaScript array: a write at the end appends
SetAt(arr, i, v) ==
    IF i < Len(arr) THEN [arr EXCEPT ![i + 1] = v]
    ELSE arr \o [k \in 1 .. (i - Len(arr)) |-> NaN] \o << v >>

\* arr.length = n
SetLength(arr, n, filler) ==
    IF n <= Len(arr) THEN SubSeq(arr, 1, n)
    ELSE arr \o [k \in 1 .. (n - Len(arr)) |-> filler]

\* FilterSettings.addPoint(type, freqSetting, gainSetting)
addPoint(filter, type, freqSetting, gainSetting) ==
    [controlPoints |-> SetAt(filter.controlPoints, filter.controlPointCount,
                             [type |-> type, freq |-> freqSetting, gain |-> gainSetting]),
     controlPointCount |-> filter.controlPointCount + 1]

\* the rounded settings convertLegacySettings computes from the legacy filter's
\* response, << freqSetting, gainSetting >> for cutoff 0..10
LegacyFilterSetting(cutoff, resonance, envDecays) ==
    LET flat == << << <<21,0>>, <<23,0>>, <<25,1>>, <<26,1>>, <<27,1>>, <<29,2>>, <<30,2>>, <<30,3>>, <<31,4>>, <<32,5>>, <<32,5>> >>,
                   << <<8,5>>, <<10,5>>, <<12,5>>, <<14,5>>, <<17,5>>, <<19,5>>, <<21,5>>, <<24,5>>, <<26,5>>, <<29,5>>, <<29,5>> >>,
                   << <<8,6>>, <<10,6>>, <<12,6>>, <<14,6>>, <<16,6>>, <<18,7>>, <<21,7>>, <<23,7>>, <<25,7>>, <<27,7>>, <<30,8>> >>,
                   << <<8,7>>, <<10,7>>, <<12,7>>, <<14,7>>, <<16,7>>, <<18,7>>, <<20,8>>, <<22,8>>, <<25,8>>, <<27,8>>, <<29,9>> >>,
                   << <<8,8>>, <<10,8>>, <<12,8>>, <<14,8>>, <<16,8>>, <<18,8>>, <<20,9>>, <<22,9>>, <<24,9>>, <<26,10>>, <<28,10>> >>,
                   << <<8,9>>, <<10,9>>, <<12,9>>, <<14,9>>, <<16,9>>, <<18,10>>, <<20,10>>, <<22,10>>, <<24,10>>, <<26,11>>, <<28,11>> >>,
                   << <<8,11>>, <<10,11>>, <<12,11>>, <<14,11>>, <<16,11>>, <<18,11>>, <<20,11>>, <<22,11>>, <<24,12>>, <<26,12>>, <<28,13>> >>,
                   << <<8,14>>, <<10,14>>, <<12,14>>, <<14,14>>, <<16,14>>, <<18,14>>, <<20,14>>, <<22,14>>, <<24,14>>, <<26,14>>, <<28,14>> >> >>
        decays == << << <<21,0>>, <<23,0>>, <<25,1>>, <<26,1>>, <<27,1>>, <<29,2>>, <<30,2>>, <<30,3>>, <<31,3>>, <<32,3>>, <<32,3>> >>,
                     << <<8,5>>, <<10,5>>, <<12,5>>, <<14,5>>, <<17,5>>, <<19,5>>, <<21,5>>, <<23,5>>, <<25,5>>, <<27,5>>, <<29,5>> >>,
                     << <<8,6>>, <<10,6>>, <<12,6>>, <<14,6>>, <<16,6>>, <<18,6>>, <<21,6>>, <<23,6>>, <<25,6>>, <<27,6>>, <<29,6>> >>,
                     << <<8,7>>, <<10,7>>, <<12,7>>, <<14,7>>, <<16,7>>, <<18,7>>, <<20,7>>, <<22,7>>, <<25,7>>, <<27,7>>, <<29,7>> >>,
                     << <<8,8>>, <<10,8>>, <<12,8>>, <<14,8>>, <<16,8>>, <<18,8>>, <<20,8>>, <<22,8>>, <<24,8>>, <<26,8>>, <<28,8>> >>,
                     << <<8,9>>, <<10,9>>, <<12,9>>, <<14,9>>, <<16,9>>, <<18,9>>, <<20,9>>, <<22,9>>, <<24,9>>, <<26,9>>, <<28,9>> >>,
                     << <<8,11>>, <<10,11>>, <<12,11>>, <<14,11>>, <<16,11>>, <<18,11>>, <<20,11>>, <<22,11>>, <<24,11>>, <<26,11>>, <<28,11>> >>,
                     << <<8,14>>, <<10,14>>, <<12,14>>, <<14,14>>, <<16,14>>, <<18,14>>, <<20,14>>, <<22,14>>, <<24,14>>, <<26,14>>, <<28,14>> >> >>
    IN  (IF envDecays THEN decays ELSE flat)[resonance + 1][cutoff + 1]

\* convertLegacySettings without its reset(): the points held before stay counted
convertLegacySettingsKeepsPoints(filter, legacyCutoffSetting, legacyResonanceSetting, legacyEnv, instrumentType) ==
    LET cutoff == IF legacyCutoffSetting = NaN
                  THEN (IF instrumentType = InstrumentType.chip THEN 6 ELSE 10)
                  ELSE legacyCutoffSetting
        resonance == IF legacyResonanceSetting = NaN THEN 0 ELSE legacyResonanceSetting
        legacyFilterCutoffRange == 11
        resonant == resonance > 1
        cutoffAtMax == cutoff = legacyFilterCutoffRange - 1
        envType == Config.envelopeTypes[legacyEnv + 1]
        envDecays == envType \in {"flare", "twang", "decay", "custom"}
        setting == LegacyFilterSetting(cutoff, resonance, envDecays)
    IN  IF ~envDecays /\ ~resonant /\ cutoffAtMax THEN filter
        ELSE addPoint(filter, FilterType.lowPass, setting[1], setting[2])

\* FilterSettings.convertLegacySettings(cutoff, resonance, legacyEnv, type);
\* legacyEnv is given by its index in Config.envelopes
convertLegacySettings(filter, legacyCutoffSetting, legacyResonanceSetting, legacyEnv, instrumentType) ==
    LET cutoff == IF legacyCutoffSetting = NaN
                  THEN (IF instrumentType = InstrumentType.chip THEN 6 ELSE 10)
                  ELSE legacyCutoffSetting
        resonance == IF legacyResonanceSetting = NaN THEN 0 ELSE legacyResonanceSetting
        legacyFilterCutoffRange == 11
        resonant == resonance > 1
        cutoffAtMax == cutoff = legacyFilterCutoffRange - 1
        envType == Config.envelopeTypes[legacyEnv + 1]
        envDecays == envType \in {"flare", "twang", "decay", "custom"}
        setting == LegacyFilterSetting(cutoff, resonance, envDecays)
    IN  IF ~envDecays /\ ~resonant /\ cutoffAtMax THEN FilterReset(filter)
        ELSE addPoint(FilterReset(filter), FilterType.lowPass, setting[1], setting[2])

\* new Instrument(isNoiseChannel)
NewInstrument(isNoiseChannel) ==
    [ type |-> InstrumentType.chip, preset |-> 0, chipWave |-> 2, chipNoise |-> 1,
      filter |-> NewFilter, distortionFilter |-> NewFilter,
      filterEnvelope |-> 1, transition |-> 1, vibrato |-> 0, interval |-> 0,
      effects |-> 0, chord |-> 1, volume |-> 0, pan |-> Config.panCenter,
      pulseWidth |-> Config.pulseWidthRange - 1, pulseEnvelope |-> 1, sustain |-> 6,
      distortion |-> 0, bitcrusherFreq |-> 0, bitcrusherQuantization |-> 0,
      reverb |-> 0, algorithm |-> 0, feedbackType |-> 0, feedbackAmplitude |-> 0,
      feedbackEnvelope |-> 1,
      operators |-> [i \in 1 .. Config.operatorCount |-> OperatorReset(i - 1)],
      spectrumWave |-> SpectrumReset(isNoiseChannel),
      harmonicsWave |-> HarmonicsReset,
      drumsetEnvelopes |-> [i \in 1 .. Config.drumCount |-> Config.envelopeTwang2],
      drumsetSpectrumWaves |-> [i \in 1 .. Config.drumCount |-> SpectrumReset(TRUE)] ]

\* Instrument.setTypeAndReset with the switch on the type left out
setTypeAndResetCommon(inst, type) ==
    [inst EXCEPT
        !.type = type, !.preset = type, !.volume = 0, !.reverb = 2,
        !.distortionFilter = FilterReset(@),
        !.distortion = ((Config.distortionRange - 1) * 3) \div 4,
        !.bitcrusherFreq = (Config.bitcrusherFreqRange - 1) \div 2,
        !.bitcrusherQuantization = (Config.bitcrusherQuantizationRange - 1) \div 2,
        !.pan = Config.panCenter,
        !.filter = FilterReset(@),
        !.vibrato = 0, !.interval = 0,
        !.transition = Config.transitionHard,
        !.filterEnvelope = Config.envelopeSteady]

\* Instrument.setTypeAndReset(type, isNoiseChannel); type is a valid type
setTypeAndReset(inst, type, isNoiseChannel) ==
    LET c == setTypeAndResetCommon(inst, type)
    IN  CASE type = InstrumentType.chip ->
                [c EXCEPT !.chipWave = 2, !.effects = 1, !.chord = 2]
          [] type = InstrumentType.fm ->
                [c EXCEPT !.effects = 1, !.chord = 3, !.algorithm = 0, !.feedbackType = 0,
                          !.feedbackAmplitude = 0,
                          !.feedbackEnvelope = Config.envelopeSteady,
                          !.operators = [i \in 1 .. Len(@) |-> OperatorReset(i - 1)]]
          [] type = InstrumentType.noise ->
                [c EXCEPT !.chipNoise = 1, !.effects = 0, !.chord = 2]
          [] type = InstrumentType.spectrum ->
                [c EXCEPT !.effects = 1, !.chord = 0,
                          !.spectrumWave = SpectrumReset(isNoiseChannel)]
          [] type = InstrumentType.drumset ->
                [c EXCEPT !.effects = 0,
                          !.drumsetEnvelopes =
                              [i \in 1 .. Config.drumCount |-> Config.envelopeTwang2],
                          !.drumsetSpectrumWaves =
                              [i \in 1 .. Config.drumCount |-> SpectrumReset(isNoiseChannel)]]
          [] type = InstrumentType.harmonics ->
                [c EXCEPT !.effects = 1, !.chord = 0, !.harmonicsWave = HarmonicsReset]
          [] type = InstrumentType.pwm ->
                [c EXCEPT !.effects = 1, !.chord = 2,
                          !.pulseWidth = Config.pulseWidthRange - 1,
                          !.pulseEnvelope = Config.envelopeTwang2]
          [] type = InstrumentType.guitar ->
                [c EXCEPT !.effects = 1, !.chord = 3,
                          !.pulseWidth = Config.pulseWidthRange - 3, !.sustain = 6]

\* new Channel()
NewChannel == [octave |-> 0, instruments |-> << >>, patterns |-> << >>, bars |-> << >>]

\* a Song object before its constructor has run: no field is set
FreshSong ==
    [ scale |-> NaN, key |-> NaN, tempo |-> NaN, beatsPerBar |-> NaN, barCount |-> NaN,
      patternsPerChannel |-> NaN, rhythm |-> NaN, instrumentsPerChannel |-> NaN,
      loopStart |-> NaN, loopLength |-> NaN, pitchChannelCount |-> NaN,
      noiseChannelCount |-> NaN, channels |-> << >> ]

getChannelCount(song) == JsAdd(song.pitchChannelCount, song.noiseChannelCount)

\* the values of  for (channel = 0; channel < this.getChannelCount(); channel++)
ChannelIndexes(song) ==
    IF getChannelCount(song) = NaN THEN {} ELSE 0 .. getChannelCount(song) - 1

getChannelIsNoise(song, channel) ==
    song.pitchChannelCount # NaN /\ channel >= song.pitchChannelCount

\* Song.initToDefault(andResetChannels)
initToDefault(song, andResetChannels) ==
    LET s == [song EXCEPT !.scale = 0, !.key = 0, !.loopStart = 0, !.loopLength = 4,
                          !.tempo = 150, !.beatsPerBar = 8, !.barCount = 16,
                          !.patternsPerChannel = 8, !.rhythm = 1,
                          !.instrumentsPerChannel = 1]
        Reset(channelIndex) ==
            LET old == IF channelIndex < Len(song.channels)
                       THEN song.channels[channelIndex + 1] ELSE NewChannel
                isNoiseChannel == channelIndex >= 3
                oldInst == IF Len(old.instruments) > 0 THEN old.instruments[1]
                           ELSE NewInstrument(isNoiseChannel)
            IN  [octave |-> 3 - channelIndex,
                 patterns |-> [p \in 1 .. 8 |-> NewPattern],
                 instruments |-> << setTypeAndReset(oldInst,
                                       IF isNoiseChannel THEN InstrumentType.noise
                                       ELSE InstrumentType.chip, isNoiseChannel) >>,
                 bars |-> [b \in 1 .. 16 |-> IF b - 1 < 4 THEN 1 ELSE 0]]
    IN  IF andResetChannels
        THEN [s EXCEPT !.pitchChannelCount = 3, !.noiseChannelCount = 1,
                       !.channels = [c \in 1 .. 4 |-> Reset(c - 1)]]
        ELSE s

----------------------------------------------------------------------------
(* Song.toBase64String *)

\* arr.indexOf(v)
IndexOf(arr, v) ==
    IF \E i \in 1 .. Len(arr) : arr[i] = v
    THEN (CHOOSE i \in 1 .. Len(arr) : arr[i] = v /\ \A j \in 1 .. i - 1 : arr[j] # v) - 1
    ELSE 0 - 1

RecentKeepsFront(arr, index, v, limit) ==
    IF arr = << >> THEN << v >> ELSE arr

\* splice(index, 1) when index # -1, then unshift(v), then pop() above limit
Recent(arr, index, v, limit) ==
    LET kept == IF index = 0 - 1 THEN arr
                ELSE SubSeq(arr, 1, index) \o SubSeq(arr, index + 2, Len(arr))
        grown == << v >> \o kept
    IN  IF Len(grown) > limit THEN SubSeq(grown, 1, Len(grown) - 1) ELSE grown

Flatten(seqs) ==
    LET RECURSIVE Cat(_, _)
        \* seqs[lo] \o ... \o seqs[hi]
        Cat(lo, hi) == IF lo > hi THEN << >>
                       ELSE IF lo = hi THEN seqs[lo]
                       ELSE Cat(lo, (lo + hi) \div 2) \o Cat((lo + hi) \div 2 + 1, hi)
    IN  Cat(1, Len(seqs))

\* the smallest n with (1 << n) >= limit
NeededBits(limit) ==
    LET RECURSIVE Up(_)
        Up(n) == IF limit # NaN /\ Pow2(n) < limit THEN Up(n + 1) ELSE n
    IN  Up(0)

\* the characters of one filter: count, then type, freq, gain of each point
FilterChars(filter) ==
    << CharOf(filter.controlPointCount) >> \o
    Flatten([j \in 1 .. filter.controlPointCount |->
        << CharOf(filter.controlPoints[j].type), CharOf(filter.controlPoints[j].freq),
           CharOf(filter.controlPoints[j].gain) >>])

\* a new BitFieldWriter after write(width, values[i]) for each i in turn
WriteAll(values, width) ==
    [bits |-> [k \in 1 .. Len(values) * width |->
                  UShrBit(values[(k - 1) \div width + 1], width - 1 - ((k - 1) % width))],
     index |-> Len(values) * width, threw |-> FALSE]

\* the records toBase64String pushes for one instrument, one tag a record
InstrumentRecords(instrument) ==
    LET T == SongTagCode
        c(v) == CharOf(v)
        ops == instrument.operators
        common ==
            << << T.startInstrument, c(instrument.type) >>,
               << T.volume, c(instrument.volume) >>,
               << T.preset, c(Shr(instrument.preset, 6)), c(JsAndMask(instrument.preset, 63)) >>,
               << T.effects, c(Shr(instrument.effects, 6)), c(JsAndMask(instrument.effects, 63)) >>,
               << T.filter >> \o FilterChars(instrument.filter) >>
        fx ==
            (IF effectsInclude(instrument.effects, EffectType.distortion)
             THEN << << T.distortion, c(instrument.distortion) >>,
                     << T.distortionFilter >> \o FilterChars(instrument.distortionFilter) >>
             ELSE << >>) \o
            (IF effectsInclude(instrument.effects, EffectType.bitcrusher)
             THEN << << T.bitcrusher, c(instrument.bitcrusherFreq),
                        c(instrument.bitcrusherQuantization) >> >>
             ELSE << >>) \o
            (IF effectsInclude(instrument.effects, EffectType.panning)
             THEN << << T.pan, c(instrument.pan) >> >> ELSE << >>) \o
            (IF effectsInclude(instrument.effects, EffectType.reverb)
             THEN << << T.reverb, c(instrument.reverb) >> >> ELSE << >>)
        tone ==
            IF instrument.type # InstrumentType.drumset
            THEN << << T.transition, c(instrument.transition) >>,
                    << T.filterEnvelope, c(instrument.filterEnvelope) >>,
                    << T.chord, c(instrument.chord) >> >>
            ELSE << >>
        byType ==
            CASE instrument.type = InstrumentType.chip ->
                    << << T.wave, c(instrument.chipWave) >>,
                       << T.vibrato, c(instrument.vibrato) >>,
                       << T.interval, c(instrument.interval) >> >>
              [] instrument.type = InstrumentType.fm ->
                    << << T.vibrato, c(instrument.vibrato) >>,
                       << T.algorithm, c(instrument.algorithm) >>,
                       << T.feedbackType, c(instrument.feedbackType) >>,
                       << T.feedbackAmplitude, c(instrument.feedbackAmplitude) >>,
                       << T.feedbackEnvelope, c(instrument.feedbackEnvelope) >>,
                       << T.operatorFrequencies >> \o
                            [o \in 1 .. Config.operatorCount |-> c(ops[o].frequency)],
                       << T.operatorAmplitudes >> \o
                            [o \in 1 .. Config.operatorCount |-> c(ops[o].amplitude)],
                       << T.operatorEnvelopes >> \o
                            [o \in 1 .. Config.operatorCount |-> c(ops[o].envelope)] >>
              [] instrument.type = InstrumentType.noise ->
                    << << T.wave, c(instrument.chipNoise) >> >>
              [] instrument.type = InstrumentType.spectrum ->
                    << << T.spectrum >> \o
                       encodeBase64(WriteAll(instrument.spectrumWave,
                                             Config.spectrumControlPointBits)) >>
              [] instrument.type = InstrumentType.drumset ->
                    << << T.filterEnvelope >> \o
                            [j \in 1 .. Config.drumCount |-> c(instrument.drumsetEnvelopes[j])],
                       << T.spectrum >> \o
                       encodeBase64(WriteAll(Flatten(instrument.drumsetSpectrumWaves),
                                             Config.spectrumControlPointBits)) >>
              [] instrument.type = InstrumentType.harmonics ->
                    << << T.vibrato, c(instrument.vibrato) >>,
                       << T.interval, c(instrument.interval) >>,
                       << T.harmonics >> \o
                       encodeBase64(WriteAll(instrument.harmonicsWave,
                                             Config.harmonicsControlPointBits)) >>
              [] instrument.type = InstrumentType.pwm ->
                    << << T.vibrato, c(instrument.vibrato) >>,
                       << T.pulseWidth, c(instrument.pulseWidth),
                          c(instrument.pulseEnvelope) >> >>
              [] instrument.type = InstrumentType.guitar ->
                    << << T.pulseWidth, c(instrument.pulseWidth) >>,
                       << T.vibrato, c(instrument.vibrato) >>,
                       << T.sustain, c(instrument.sustain) >> >>
    IN  common \o fx \o tone \o byType

\* the body of  for (const note of pattern.notes)  in toBase64String; st holds
\* bits, shapeBits, recentShapes, recentPitches, lastPitch and curPart, and
\* strayed: whether lastPitch was ever found outside recentPitches at the end of
\* a turn of the loop over the pitches
EncodeNote(st, note) ==
    LET rested == IF note.start > st.curPart
                  THEN writePartDuration(write(st.bits, 2, 0), note.start - st.curPart)
                  ELSE st.bits
        RECURSIVE Chord(_, _)
        Chord(w, i) == IF ~w.threw /\ i < Len(note.pitches) THEN Chord(write(w, 1, 1), i + 1) ELSE w
        chordBits == LET w == Chord(clear(st.shapeBits), 1)
                     IN  IF Len(note.pitches) < Config.maxChordSize THEN write(w, 1, 0) ELSE w
        headBits == write(writePinCount(chordBits, Len(note.pins) - 1), 2,
                          note.pins[1].expression)
        startPitch == note.pitches[1]
        RECURSIVE Pins(_, _, _, _, _)
        Pins(w, i, shapePart, currentPitch, pitchBends) ==
            IF w.threw \/ i > Len(note.pins) THEN [w |-> w, pitchBends |-> pitchBends]
            ELSE LET pin == note.pins[i]
                     nextPitch == startPitch + pin.interval
                     bent == currentPitch # nextPitch
                     w1 == write(w, 1, IF bent THEN 1 ELSE 0)
                     w2 == write(writePartDuration(w1, pin.time - shapePart), 2, pin.expression)
                 IN  Pins(w2, i + 1, pin.time, nextPitch,
                          IF bent THEN Append(pitchBends, nextPitch) ELSE pitchBends)
        \* the pitches passed from lastPitch to pitch that are not in recent, one
        \* counted up for each on the way up and down for each on the way down
        Count(lastPitch, pitch, recent) ==
            IF lastPitch < pitch
            THEN Cardinality({ q \in lastPitch + 1 .. pitch : IndexOf(recent, q) = 0 - 1 })
            ELSE 0 - Cardinality({ q \in pitch .. lastPitch - 1 :
                                     IndexOf(recent, q) = 0 - 1 })
        RECURSIVE Pitches(_, _, _, _, _, _)
        Pitches(w, i, recent, lastPitch, allPitches, strayed) ==
            IF w.threw \/ i > Len(allPitches)
            THEN [bits |-> w, recentPitches |-> recent, lastPitch |-> lastPitch,
                  strayed |-> strayed]
            ELSE LET pitch == allPitches[i]
                     pitchIndex == IndexOf(recent, pitch)
                     w1 == IF pitchIndex = 0 - 1
                           THEN writePitchInterval(write(w, 1, 0),
                                                   Count(lastPitch, pitch, recent))
                           ELSE write(write(w, 1, 1), 3, pitchIndex)
                     recent1 == Recent(recent, pitchIndex, pitch, 8)
                     lastPitch1 == IF i = Len(note.pitches) THEN note.pitches[1]
                                   ELSE pitch
                 IN  Pitches(w1, i + 1, recent1, lastPitch1, allPitches,
                             strayed \/ IndexOf(recent1, lastPitch1) = 0 - 1)
        \* the state after the note, each value written being handed on to what
        \* follows it
        Pitched(shape, shapeString, shapeIndex, pitched) ==
            [bits |-> pitched.bits, shapeBits |-> shape.w,
             recentShapes |-> Recent(st.recentShapes, shapeIndex, shapeString, 10),
             recentPitches |-> pitched.recentPitches, lastPitch |-> pitched.lastPitch,
             strayed |-> pitched.strayed, curPart |-> note.end]
        Indexed(bits, shape, shapeString, shapeIndex) ==
            Pitched(shape, shapeString, shapeIndex,
                    Pitches(IF shapeIndex = 0 - 1 THEN concat(write(bits, 2, 1), shape.w)
                            ELSE writeLongTail(write(bits, 1, 1), 0, 0, shapeIndex),
                            1, st.recentPitches, st.lastPitch,
                            note.pitches \o shape.pitchBends, st.strayed))
        Named(bits, shape, shapeString) ==
            Indexed(bits, shape, shapeString, IndexOf(st.recentShapes, shapeString))
        Shaped(bits, shape) == Named(bits, shape, encodeBase64(shape.w))
    IN  Shaped(rested, Pins(headBits, 2, 0, startPitch, << >>))

\* the writer  bits  of the patterns record of toBase64String
PatternBits(song) ==
    LET neededInstrumentBits == NeededBits(song.instrumentsPerChannel)
        full == song.beatsPerBar * Config.partsPerBeat
        RECURSIVE Notes(_, _, _)
        Notes(st, notes, i) ==
            IF st.bits.threw \/ i > Len(notes) THEN st
            ELSE Notes(EncodeNote(st, notes[i]), notes, i + 1)
        \* the rest that fills the bar after the last note
        Filled(n) ==
            IF n.curPart < full
            THEN [n EXCEPT !.bits = writePartDuration(write(@, 2, 0), full - n.curPart)]
            ELSE n
        OnePattern(st, pattern) ==
            LET w == write(st.bits, neededInstrumentBits, pattern.instrument)
            IN  IF Len(pattern.notes) > 0
                THEN Filled(Notes([st EXCEPT !.bits = write(w, 1, 1), !.curPart = 0],
                                  pattern.notes, 1))
                ELSE [st EXCEPT !.bits = write(w, 1, 0)]
        RECURSIVE Patterns(_, _, _, _)
        \* OnePattern for the patterns lo .. hi in turn
        Patterns(st, patterns, lo, hi) ==
            IF st.bits.threw \/ lo > hi THEN st
            ELSE IF lo = hi THEN OnePattern(st, patterns[lo])
            ELSE Patterns(Patterns(st, patterns, lo, (lo + hi) \div 2), patterns,
                          (lo + hi) \div 2 + 1, hi)
        RECURSIVE Channels(_, _, _)
        NextChannel(st, channel) == Channels(st.bits, st.shapeBits, channel + 1)
        Channels(w, shapeBits, channel) ==
            IF w.threw \/ channel \notin ChannelIndexes(song) THEN w
            ELSE LET isNoiseChannel == getChannelIsNoise(song, channel)
                     octaveOffset == IF isNoiseChannel THEN 0
                                     ELSE song.channels[channel + 1].octave * 12
                     base == IF isNoiseChannel THEN << 4, 6, 7, 2, 3, 8, 0, 10 >>
                             ELSE << 12, 19, 24, 31, 36, 7, 0 >>
                 IN  NextChannel(
                        Patterns([bits |-> w, shapeBits |-> shapeBits,
                                  recentShapes |-> << >>,
                                  recentPitches |-> [i \in 1 .. Len(base) |->
                                                         base[i] + octaveOffset],
                                  lastPitch |-> (IF isNoiseChannel THEN 4 ELSE 12)
                                                + octaveOffset,
                                  strayed |-> FALSE, curPart |-> 0],
                                 song.channels[channel + 1].patterns, 1,
                                 Len(song.channels[channel + 1].patterns)),
                        channel)
    IN  Channels(NewWriter, NewWriter, 0)

\* the characters toBase64String pushes after the version, one tag a record
toBase64Records(song) ==
    LET T == SongTagCode
        c(v) == CharOf(v)
        two(v) == << c(Shr(v, 6)), c(JsAndMask(v, 63)) >>
        count == IF getChannelCount(song) = NaN THEN 0 ELSE getChannelCount(song)
        scalars ==
            << << T.channelCount, c(song.pitchChannelCount), c(song.noiseChannelCount) >>,
               << T.scale, c(song.scale) >>,
               << T.key, c(song.key) >>,
               << T.loopStart >> \o two(song.loopStart),
               << T.loopEnd >> \o two(JsAdd(song.loopLength, 0 - 1)),
               << T.tempo >> \o two(song.tempo),
               << T.beatCount, c(JsAdd(song.beatsPerBar, 0 - 1)) >>,
               << T.barCount >> \o two(JsAdd(song.barCount, 0 - 1)),
               << T.patternCount >> \o two(JsAdd(song.patternsPerChannel, 0 - 1)),
               << T.instrumentCount, c(JsAdd(song.instrumentsPerChannel, 0 - 1)) >>,
               << T.rhythm, c(song.rhythm) >>,
               << T.channelOctave >> \o
                    [ch \in 1 .. count |-> c(song.channels[ch].octave)] >>
        instruments ==
            Flatten([ch \in 1 .. count |->
                Flatten([i \in 1 .. song.instrumentsPerChannel |->
                    InstrumentRecords(song.channels[ch].instruments[i])])])
        neededBits == NeededBits(JsAdd(song.patternsPerChannel, 1))
        barCount == IF song.barCount = NaN THEN 0 ELSE song.barCount
        bars == Flatten([ch \in 1 .. count |->
                    [i \in 1 .. barCount |-> At(song.channels[ch].bars, i - 1)]])
        RECURSIVE Digits(_)
        Digits(stringLength) ==
            IF stringLength > 0
            THEN Digits(Shr(stringLength, 6)) \o << c(JsAndMask(stringLength, 63)) >>
            ELSE << >>
        Counted(digits, symbols) == << T.patterns, c(Len(digits)) >> \o digits \o symbols
        patterns(bits) == Counted(Digits(lengthBase64(bits)), encodeBase64(bits))
    IN  scalars \o instruments \o
        << << T.bars >> \o encodeBase64(WriteAll(bars, neededBits)),
           patterns(PatternBits(song)) >>

\* Song.toBase64String(): the string as its sequence of character codes
toBase64String(song) == << CharOf(9) >> \o Flatten(toBase64Records(song))

----------------------------------------------------------------------------
(* Song.fromBase64String: the state of one call, and the tag handlers.     *)
(* A state d holds the song, charIndex, legacyFilterSettings (legacy),     *)
(* legacyGlobalReverb, instrumentChannelIterator (ch),                     *)
(* instrumentIndexIterator (ix) and the error thrown, if any.              *)

NoError == [kind |-> "none", char |-> NaN, index |-> NaN]

\* base64CharCodeToInt[compressed.charCodeAt(charIndex + k)]
B(d, compressed, k) == Base64At(compressed, d.charIndex + k)

\* throw: "range" for validateRange, "type" for a TypeError on undefined,
\* "unhandled" for the spectrum tag on another instrument type
Throw(d, kind) == [d EXCEPT !.error = [kind |-> kind, char |-> NaN, index |-> NaN]]

\* (a << 6) | b  for base64 symbols a and b (each -1..63 or undefined)
Or6(a, b) == IF ToInt32(b) < 0 THEN ToInt32(b) ELSE Shl(a, 6) + ToInt32(b)

\* Math.max(min, Math.min(max, val))
MaxMin(min, max, val) ==
    IF val = NaN THEN NaN ELSE IF val > max THEN max ELSE IF val < min THEN min ELSE val

\* an empty LegacyFilterSettings object
NoLegacy == [cutoff |-> NaN, resonance |-> NaN]

\* for (i = legacy.length; i < getChannelCount(); i++) legacy[i] = [{}, ...]
GrowLegacy(legacy, song) ==
    LET count == IF getChannelCount(song) = NaN THEN 0 ELSE getChannelCount(song)
        per == IF song.instrumentsPerChannel = NaN THEN 0 ELSE song.instrumentsPerChannel
    IN  IF count <= Len(legacy) THEN legacy
        ELSE legacy \o [i \in 1 .. count - Len(legacy) |-> [j \in 1 .. per |-> NoLegacy]]

\* this.channels[ch].instruments[ix] is an Instrument
HasInstrument(d) ==
    /\ d.ch >= 0 /\ d.ch < Len(d.song.channels)
    /\ d.ix >= 0 /\ d.ix < Len(d.song.channels[d.ch + 1].instruments)

Instrument(d) == d.song.channels[d.ch + 1].instruments[d.ix + 1]

\* the handler's writes to that instrument, and charIndex += n
WithInstrument(d, instrument, n) ==
    [d EXCEPT !.song.channels[d.ch + 1].instruments[d.ix + 1] = instrument,
              !.charIndex = @ + n]

\* cases channelCount, scale, key, loopStart, loopEnd, tempo, reverb
SongSettingTags(d, compressed, v, command) ==
    LET T == SongTagCode
        b0 == B(d, compressed, 0)
        b1 == B(d, compressed, 1)
    IN  CASE command = T.channelCount ->
                IF ~InRange(Config.pitchChannelCountMin, Config.pitchChannelCountMax, b0)
                   \/ ~InRange(Config.noiseChannelCountMin, Config.noiseChannelCountMax, b1)
                THEN Throw([d EXCEPT !.song.pitchChannelCount = b0,
                                     !.song.noiseChannelCount = b1], "range")
                ELSE LET song == [d.song EXCEPT
                                    !.pitchChannelCount = b0, !.noiseChannelCount = b1,
                                    !.channels = SetLength(@, b0 + b1, NewChannel)]
                     IN  [d EXCEPT !.song = song, !.charIndex = @ + 2,
                                   !.legacy = IF v.beforeNine THEN GrowLegacy(@, song) ELSE @]
          [] command = T.scale ->
                [d EXCEPT !.song.scale = IF v.beforeThree /\ b0 = 10 THEN 11 ELSE b0,
                          !.charIndex = @ + 1]
          [] command = T.key ->
                [d EXCEPT !.song.key =
                              IF v.beforeSeven
                              THEN clamp(0, Config.keysLength,
                                         IF b0 = NaN THEN NaN ELSE 11 - b0)
                              ELSE clamp(0, Config.keysLength, b0),
                          !.charIndex = @ + 1]
          [] command = T.loopStart ->
                IF v.beforeFive
                THEN [d EXCEPT !.song.loopStart = b0, !.charIndex = @ + 1]
                ELSE [d EXCEPT !.song.loopStart = JsAdd(Shl(b0, 6), b1), !.charIndex = @ + 2]
          [] command = T.loopEnd ->
                IF v.beforeFive
                THEN [d EXCEPT !.song.loopLength = b0, !.charIndex = @ + 1]
                ELSE [d EXCEPT !.song.loopLength = JsAdd(JsAdd(Shl(b0, 6), b1), 1),
                               !.charIndex = @ + 2]
          [] command = T.tempo ->
                LET tempo == IF v.beforeFour THEN At(<< 95, 120, 151, 190 >>, b0)
                             ELSE IF v.beforeSeven
                             THEN At(<< 88, 95, 103, 111, 120, 130, 140, 151, 163, 176,
                                        190, 206, 222, 240, 259 >>, b0)
                             ELSE Or6(b0, b1)
                IN  [d EXCEPT !.song.tempo = clamp(Config.tempoMin, Config.tempoMax + 1, tempo),
                              !.charIndex = @ + (IF v.beforeSeven THEN 1 ELSE 2)]
          [] command = T.reverb ->
                IF v.beforeNine
                THEN [d EXCEPT !.legacyGlobalReverb = clamp(0, 4, b0), !.charIndex = @ + 1]
                ELSE IF ~HasInstrument(d) THEN Throw(d, "type")
                ELSE WithInstrument(d, [Instrument(d) EXCEPT
                                            !.reverb = clamp(0, Config.reverbRange, b0)], 1)

\* cases beatCount, barCount, patternCount, instrumentCount, rhythm, channelOctave
SongSizeTags(d, compressed, v, command) ==
    LET T == SongTagCode
        b0 == B(d, compressed, 0)
        b1 == B(d, compressed, 1)
        song == d.song
        EachChannel(Op(_, _)) ==
            [c \in 1 .. Len(song.channels) |->
                IF c - 1 \in ChannelIndexes(song) THEN Op(song.channels[c], c - 1)
                ELSE song.channels[c]]
    IN  CASE command = T.beatCount ->
                LET beats == IF v.beforeThree THEN At(<< 6, 7, 8, 9, 10 >>, b0)
                             ELSE JsAdd(b0, 1)
                IN  [d EXCEPT !.song.beatsPerBar =
                                  MaxMin(Config.beatsPerBarMin, Config.beatsPerBarMax, beats),
                              !.charIndex = @ + 1]
          [] command = T.barCount ->
                LET barCount == JsAdd(JsAdd(Shl(b0, 6), b1), 1)
                    Bars(channel, index) ==
                        [channel EXCEPT !.bars = SetLength(@, barCount, 1)]
                IN  IF ~InRange(Config.barCountMin, Config.barCountMax, barCount)
                    THEN Throw(d, "range")
                    ELSE [d EXCEPT !.song.barCount = barCount,
                                   !.song.channels = EachChannel(Bars),
                                   !.charIndex = @ + 2]
          [] command = T.patternCount ->
                LET patternsPerChannel == IF v.beforeEight THEN JsAdd(b0, 1)
                                          ELSE JsAdd(JsAdd(Shl(b0, 6), b1), 1)
                    Patterns(channel, index) ==
                        [channel EXCEPT !.patterns = SetLength(@, patternsPerChannel, NewPattern)]
                IN  IF ~InRange(1, Config.barCountMax, patternsPerChannel)
                    THEN Throw(d, "range")
                    ELSE [d EXCEPT !.song.patternsPerChannel = patternsPerChannel,
                                   !.song.channels = EachChannel(Patterns),
                                   !.charIndex = @ + (IF v.beforeEight THEN 1 ELSE 2)]
          [] command = T.instrumentCount ->
                LET instrumentsPerChannel == JsAdd(b0, 1)
                    Instruments(channel, index) ==
                        LET isNoiseChannel == getChannelIsNoise(song, index)
                            sized == SetLength(channel.instruments, instrumentsPerChannel,
                                               NewInstrument(isNoiseChannel))
                        IN  [channel EXCEPT !.instruments =
                                IF v.beforeSix
                                THEN [i \in 1 .. Len(sized) |->
                                        setTypeAndReset(sized[i],
                                            IF isNoiseChannel THEN InstrumentType.noise
                                            ELSE InstrumentType.chip, isNoiseChannel)]
                                ELSE sized]
                IN  IF ~InRange(Config.instrumentsPerChannelMin,
                                Config.instrumentsPerChannelMax, instrumentsPerChannel)
                    THEN Throw(d, "range")
                    ELSE IF v.beforeNine /\ \E c \in ChannelIndexes(song) : c >= Len(d.legacy)
                    THEN Throw(d, "type")
                    ELSE [d EXCEPT !.song.instrumentsPerChannel = instrumentsPerChannel,
                                   !.song.channels = EachChannel(Instruments),
                                   !.legacy =
                                       IF v.beforeNine
                                       THEN [c \in 1 .. Len(@) |->
                                               IF c - 1 \in ChannelIndexes(song)
                                                  /\ Len(@[c]) < instrumentsPerChannel
                                               THEN SetLength(@[c], instrumentsPerChannel, NoLegacy)
                                               ELSE @[c]]
                                       ELSE @,
                                   !.charIndex = @ + 1]
          [] command = T.rhythm ->
                [d EXCEPT !.song.rhythm = b0, !.charIndex = @ + 1]
          [] command = T.channelOctave ->
                IF v.beforeThree
                THEN IF b0 = NaN \/ b0 < 0 \/ b0 >= Len(song.channels) THEN Throw(d, "type")
                     ELSE [d EXCEPT !.song.channels[b0 + 1].octave =
                                        clamp(0, Config.scrollableOctaves + 1, b1),
                                    !.charIndex = @ + 2]
                ELSE LET Octave(channel, index) ==
                             [channel EXCEPT !.octave =
                                 clamp(0, Config.scrollableOctaves + 1, B(d, compressed, index))]
                     IN  [d EXCEPT !.song.channels = EachChannel(Octave),
                                   !.charIndex = @ + Cardinality(ChannelIndexes(song))]

\* the version 3..5 loops  for (channel ...) for (i < instrumentsPerChannel) ,
\* each reading one character: Op(instrument, symbol, channel) is the body
EachInstrument(d, compressed, Op(_, _, _)) ==
    LET song == d.song
        per == IF song.instrumentsPerChannel = NaN THEN 0 ELSE song.instrumentsPerChannel
    IN  IF \E c \in ChannelIndexes(song) : Len(song.channels[c + 1].instruments) < per
        THEN Throw(d, "type")
        ELSE [d EXCEPT
                !.song.channels =
                    [c \in 1 .. Len(song.channels) |->
                        [song.channels[c] EXCEPT !.instruments =
                            [i \in 1 .. Len(song.channels[c].instruments) |->
                                IF i <= per
                                THEN Op(song.channels[c].instruments[i],
                                        B(d, compressed, (c - 1) * per + (i - 1)), c - 1)
                                ELSE song.channels[c].instruments[i]]]],
                !.charIndex = @ + Cardinality(ChannelIndexes(song)) * per]

\* the version 2 form  channels[symbol 0].instruments[0] : Op(instrument, symbol 1)
ChannelInstrument(d, compressed, Op(_, _)) ==
    LET channel == B(d, compressed, 0)
    IN  IF channel = NaN \/ channel < 0 \/ channel >= Len(d.song.channels)
        THEN Throw(d, "type")
        ELSE IF Len(d.song.channels[channel + 1].instruments) = 0 THEN Throw(d, "type")
        ELSE [d EXCEPT !.song.channels[channel + 1].instruments[1] =
                            Op(@, B(d, compressed, 1)),
                       !.charIndex = @ + 2]

\* cases startInstrument, preset
StartInstrumentTags(d, compressed, v, command) ==
    LET b0 == B(d, compressed, 0)
        b1 == B(d, compressed, 1)
    IN  IF command = SongTagCode.startInstrument
        THEN LET wrap == d.song.instrumentsPerChannel # NaN
                         /\ d.ix + 1 >= d.song.instrumentsPerChannel
                 n == [d EXCEPT !.ix = IF wrap THEN 0 ELSE @ + 1,
                                !.ch = IF wrap THEN @ + 1 ELSE @,
                                !.charIndex = @ + 1]
                 isNoise == n.ch >= d.song.pitchChannelCount
                 reset == setTypeAndReset(Instrument(n), b0, isNoise)
             IN  IF ~InRange(0, Len(d.song.channels) - 1, n.ch) THEN Throw(n, "range")
                 ELSE IF ~InRange(0, InstrumentType.length - 1, b0) THEN Throw(n, "range")
                 ELSE IF ~HasInstrument(n) THEN Throw(n, "type")
                 ELSE IF v.beforeSeven
                 THEN IF d.legacyGlobalReverb > 0 /\ ~getChannelIsNoise(d.song, n.ch)
                      THEN WithInstrument(n, [reset EXCEPT
                                !.effects = Pow2(EffectType.reverb),
                                !.reverb = d.legacyGlobalReverb], 0)
                      ELSE WithInstrument(n, [reset EXCEPT !.effects = 0], 0)
                 ELSE WithInstrument(n, reset, 0)
        ELSE IF ~HasInstrument(d) THEN Throw(d, "type")
             ELSE WithInstrument(d, [Instrument(d) EXCEPT !.preset = Or6(b0, b1)], 2)

\* case wave
WaveTag(d, compressed, v) ==
    LET b0 == B(d, compressed, 0)
        legacyWaves == << 1, 2, 3, 4, 5, 6, 7, 8, 0 >>
        Legacy(symbol) == clamp(0, Config.chipWavesLength, ToInt32(At(legacyWaves, symbol)))
        Two(instrument, symbol) ==
            [instrument EXCEPT
                !.chipWave = Legacy(symbol),
                !.filter = convertLegacySettings(@, NaN, NaN, instrument.filterEnvelope,
                                                 instrument.type)]
        Loop(instrument, symbol, channel) ==
            IF channel >= d.song.pitchChannelCount
            THEN [instrument EXCEPT !.chipNoise = clamp(0, Config.chipNoisesLength, symbol)]
            ELSE [instrument EXCEPT !.chipWave = Legacy(symbol)]
    IN  IF v.beforeThree THEN ChannelInstrument(d, compressed, Two)
        ELSE IF v.beforeSix THEN EachInstrument(d, compressed, Loop)
        ELSE IF ~HasInstrument(d) THEN Throw(d, "type")
        ELSE IF d.ch >= d.song.pitchChannelCount
        THEN WithInstrument(d, [Instrument(d) EXCEPT
                 !.chipNoise = clamp(0, Config.chipNoisesLength, b0)], 1)
        ELSE WithInstrument(d, [Instrument(d) EXCEPT
                 !.chipWave = IF v.beforeSeven THEN Legacy(b0)
                              ELSE clamp(0, Config.chipWavesLength, b0)], 1)

\* the version 9 payload of the filter and distortionFilter cases: the filter
\* read, and the number of characters consumed
ReadFilter(filter, d, compressed) ==
    LET originalControlPointCount == B(d, compressed, 0)
        count == clamp(0, Config.filterMaxPoints + 1, originalControlPointCount)
        fresh == [type |-> FilterType.peak, freq |-> 0, gain |-> Config.filterGainCenter]
        grown == IF Len(filter.controlPoints) < count
                 THEN SetLength(filter.controlPoints, count, fresh)
                 ELSE filter.controlPoints
        skipped == IF originalControlPointCount # NaN /\ originalControlPointCount > count
                   THEN originalControlPointCount - count ELSE 0
    IN  [filter |->
            [controlPoints |->
                [i \in 1 .. Len(grown) |->
                    IF i <= count
                    THEN [type |-> clamp(0, FilterType.length, B(d, compressed, 3 * i - 2)),
                          freq |-> clamp(0, Config.filterFreqRange, B(d, compressed, 3 * i - 1)),
                          gain |-> clamp(0, Config.filterGainRange, B(d, compressed, 3 * i))]
                    ELSE grown[i]],
             controlPointCount |-> count],
         chars |-> 1 + 3 * count + 3 * skipped]

\* legacyFilterSettings[channel][i] is an object
HasLegacy(d, channel, i) ==
    channel >= 0 /\ channel < Len(d.legacy) /\ i >= 0 /\ i < Len(d.legacy[channel + 1])

\* cases filter, filterResonance, distortionFilter, filterEnvelope
FilterTags(d, compressed, v, command) ==
    LET T == SongTagCode
        b0 == B(d, compressed, 0)
        legacyToCutoff == << 10, 6, 3, 0, 8, 5, 2 >>
        legacyToEnvelope == << 1, 1, 1, 1, 18, 19, 20 >>
        \* the instrument after the legacy settings s were stored for it
        Converted(instrument, s, envelope) ==
            [instrument EXCEPT
                !.filterEnvelope = envelope,
                !.filter = convertLegacySettings(@, s.cutoff, s.resonance, envelope,
                                                 instrument.type)]
        Named(legacyFilter) == [cutoff |-> legacyToCutoff[legacyFilter + 1], resonance |-> 0]
        LoopSetting(symbol, channel) ==
            IF channel < d.song.pitchChannelCount
            THEN Named(clamp(0, 7, JsAdd(symbol, 1)))
            ELSE [cutoff |-> 10, resonance |-> 0]
        LoopEnvelope(symbol, channel) ==
            IF channel < d.song.pitchChannelCount
            THEN legacyToEnvelope[clamp(0, 7, JsAdd(symbol, 1)) + 1] ELSE 1
        Loop(instrument, symbol, channel) ==
            Converted(instrument, LoopSetting(symbol, channel), LoopEnvelope(symbol, channel))
        per == IF d.song.instrumentsPerChannel = NaN THEN 0 ELSE d.song.instrumentsPerChannel
        \* the current instrument converted from its stored legacy settings s
        Current(s, envelope, n) ==
            [WithInstrument(d, Converted(Instrument(d), s, envelope), n)
                EXCEPT !.legacy[d.ch + 1][d.ix + 1] = s]
    IN  CASE command = T.filter /\ v.beforeThree ->
                LET channel == b0
                    legacyFilter == At(<< 1, 3, 4, 5 >>, clamp(0, 7, B(d, compressed, 1)))
                IN  IF channel = NaN \/ channel < 0 \/ channel >= Len(d.song.channels)
                       \/ Len(d.song.channels[channel + 1].instruments) = 0
                       \/ ~HasLegacy(d, channel, 0) \/ legacyFilter = NaN
                    THEN Throw(d, "type")
                    ELSE [d EXCEPT
                            !.song.channels[channel + 1].instruments[1] =
                                Converted(@, Named(legacyFilter),
                                          legacyToEnvelope[legacyFilter + 1]),
                            !.legacy[channel + 1][1] = Named(legacyFilter),
                            !.charIndex = @ + 2]
          [] command = T.filter /\ ~v.beforeThree /\ v.beforeSix ->
                IF \E c \in ChannelIndexes(d.song) : \E i \in 0 .. per - 1 : ~HasLegacy(d, c, i)
                THEN Throw(d, "type")
                ELSE [EachInstrument(d, compressed, Loop) EXCEPT
                        !.legacy = [c \in 1 .. Len(@) |-> [i \in 1 .. Len(@[c]) |->
                            IF c - 1 \in ChannelIndexes(d.song) /\ i <= per
                            THEN LoopSetting(B(d, compressed, (c - 1) * per + (i - 1)), c - 1)
                            ELSE @[c][i]]]]
          [] command = T.filter /\ ~v.beforeSix /\ v.beforeSeven ->
                IF ~HasInstrument(d) \/ ~HasLegacy(d, d.ch, d.ix) THEN Throw(d, "type")
                ELSE Current(Named(clamp(0, 7, b0)), legacyToEnvelope[clamp(0, 7, b0) + 1], 1)
          [] command = T.filter /\ ~v.beforeSeven /\ v.beforeNine ->
                IF ~HasInstrument(d) \/ ~HasLegacy(d, d.ch, d.ix) THEN Throw(d, "type")
                ELSE Current([d.legacy[d.ch + 1][d.ix + 1] EXCEPT !.cutoff = clamp(0, 11, b0)],
                             Instrument(d).filterEnvelope, 1)
          [] command = T.filter /\ ~v.beforeNine ->
                IF ~HasInstrument(d) THEN Throw(d, "type")
                ELSE LET f == ReadFilter(Instrument(d).filter, d, compressed)
                     IN  WithInstrument(d, [Instrument(d) EXCEPT !.filter = f.filter], f.chars)
          [] command = T.filterResonance ->
                IF ~v.beforeNine THEN d
                ELSE IF ~HasInstrument(d) \/ ~HasLegacy(d, d.ch, d.ix) THEN Throw(d, "type")
                ELSE Current([d.legacy[d.ch + 1][d.ix + 1] EXCEPT !.resonance = clamp(0, 8, b0)],
                             Instrument(d).filterEnvelope, 1)
          [] command = T.distortionFilter ->
                IF ~HasInstrument(d) THEN Throw(d, "type")
                ELSE LET f == ReadFilter(Instrument(d).distortionFilter, d, compressed)
                     IN  WithInstrument(d, [Instrument(d) EXCEPT !.distortionFilter = f.filter],
                                        f.chars)
          [] command = T.filterEnvelope ->
                IF ~HasInstrument(d) THEN Throw(d, "type")
                ELSE LET drumset == Instrument(d).type = InstrumentType.drumset
                         updated == IF drumset
                                    THEN [Instrument(d) EXCEPT !.drumsetEnvelopes =
                                        [i \in 1 .. Config.drumCount |->
                                            clamp(0, Config.envelopesLength,
                                                  B(d, compressed, i - 1))]]
                                    ELSE [Instrument(d) EXCEPT !.filterEnvelope =
                                        clamp(0, Config.envelopesLength, b0)]
                         n == IF drumset THEN Config.drumCount ELSE 1
                     IN  IF ~v.beforeNine THEN WithInstrument(d, updated, n)
                         ELSE IF ~HasLegacy(d, d.ch, d.ix) THEN Throw(d, "type")
                         ELSE WithInstrument(d, Converted(updated, d.legacy[d.ch + 1][d.ix + 1],
                                                          updated.filterEnvelope), n)

\* cases pulseWidth, distortion, bitcrusher, sustain
ShapeTags(d, compressed, v, command) ==
    LET T == SongTagCode
        b0 == B(d, compressed, 0)
        b1 == B(d, compressed, 1)
        instrument == Instrument(d)
    IN  IF ~HasInstrument(d) THEN Throw(d, "type")
        ELSE CASE command = T.pulseWidth ->
                    IF instrument.type = InstrumentType.pwm
                    THEN WithInstrument(d, [instrument EXCEPT
                            !.pulseWidth = clamp(0, Config.pulseWidthRange, b0),
                            !.pulseEnvelope = clamp(0, Config.envelopesLength, b1)], 2)
                    ELSE WithInstrument(d, [instrument EXCEPT
                            !.pulseWidth = clamp(0, Config.pulseWidthRange, b0)], 1)
               [] command = T.distortion ->
                    WithInstrument(d, [instrument EXCEPT
                        !.distortion = clamp(0, Config.distortionRange, b0)], 1)
               [] command = T.bitcrusher ->
                    WithInstrument(d, [instrument EXCEPT
                        !.bitcrusherFreq = clamp(0, Config.bitcrusherFreqRange, b0),
                        !.bitcrusherQuantization =
                            clamp(0, Config.bitcrusherQuantizationRange, b1)], 2)
               [] command = T.sustain ->
                    WithInstrument(d, [instrument EXCEPT
                        !.sustain = clamp(0, Config.sustainRange, b0)], 1)

\* the current instrument changed by Op(instrument, symbol), one character read
CurrentInstrument(d, compressed, Op(_, _)) ==
    IF ~HasInstrument(d) THEN Throw(d, "type")
    ELSE WithInstrument(d, Op(Instrument(d), B(d, compressed, 0)), 1)

\* cases transition, vibrato, interval, chord
ToneTags(d, compressed, v, command) ==
    LET T == SongTagCode
        Transition(instrument, symbol) ==
            [instrument EXCEPT !.transition = clamp(0, Config.transitionsLength, symbol)]
        TransitionLoop(instrument, symbol, channel) == Transition(instrument, symbol)
        LegacyVibrato(instrument, symbol, legacyEffects, legacyEnvelopes) ==
            LET effect == clamp(0, Len(legacyEffects), symbol)
            IN  [instrument EXCEPT
                    !.vibrato = legacyEffects[effect + 1],
                    !.filterEnvelope = IF @ = 1 THEN legacyEnvelopes[effect + 1] ELSE @]
        VibratoTwo(instrument, symbol) ==
            LegacyVibrato(instrument, symbol, << 0, 3, 2, 0 >>, << 1, 1, 1, 13 >>)
        VibratoSix(instrument, symbol) ==
            LegacyVibrato(instrument, symbol, << 0, 1, 2, 3, 0, 0 >>, << 1, 1, 1, 1, 16, 13 >>)
        VibratoLoop(instrument, symbol, channel) == VibratoSix(instrument, symbol)
        Vibrato(instrument, symbol) ==
            [instrument EXCEPT !.vibrato = clamp(0, Config.vibratosLength, symbol)]
        Interval(instrument, symbol) ==
            [instrument EXCEPT !.interval = clamp(0, Config.intervalsLength, symbol)]
        IntervalSix(instrument, symbol) ==
            IF symbol = 8 THEN [instrument EXCEPT !.interval = 2, !.chord = 3]
            ELSE Interval(instrument, symbol)
        IntervalLoop(instrument, symbol, channel) == IntervalSix(instrument, symbol)
        Chord(instrument, symbol) ==
            [instrument EXCEPT !.chord = clamp(0, Config.chordsLength, symbol)]
    IN  CASE command = T.transition ->
                IF v.beforeThree THEN ChannelInstrument(d, compressed, Transition)
                ELSE IF v.beforeSix THEN EachInstrument(d, compressed, TransitionLoop)
                ELSE CurrentInstrument(d, compressed, Transition)
          [] command = T.vibrato ->
                IF v.beforeThree THEN ChannelInstrument(d, compressed, VibratoTwo)
                ELSE IF v.beforeSix THEN EachInstrument(d, compressed, VibratoLoop)
                ELSE IF v.beforeSeven THEN CurrentInstrument(d, compressed, VibratoSix)
                ELSE CurrentInstrument(d, compressed, Vibrato)
          [] command = T.interval ->
                IF v.beforeThree THEN ChannelInstrument(d, compressed, Interval)
                ELSE IF v.beforeSix THEN EachInstrument(d, compressed, IntervalLoop)
                ELSE IF v.beforeSeven THEN CurrentInstrument(d, compressed, IntervalSix)
                ELSE CurrentInstrument(d, compressed, Interval)
          [] command = T.chord -> CurrentInstrument(d, compressed, Chord)

\* cases effects, volume, pan
MixTags(d, compressed, v, command) ==
    LET T == SongTagCode
        b0 == B(d, compressed, 0)
        b1 == B(d, compressed, 1)
        all == Pow2(EffectType.length) - 1
        Volume(instrument, symbol) ==
            [instrument EXCEPT !.volume = clamp(0, Config.volumeRange, symbol)]
        VolumeSix(instrument, symbol) ==
            [instrument EXCEPT !.volume =
                IF clamp(0, Config.volumeRange, symbol) = 5 THEN Config.volumeRange - 1
                ELSE clamp(0, Config.volumeRange, symbol)]
        VolumeLoop(instrument, symbol, channel) == VolumeSix(instrument, symbol)
        Pan(instrument, symbol) ==
            [instrument EXCEPT !.pan = clamp(0, Config.panMax + 1, symbol)]
        LegacyEffects(instrument, symbol) ==
            LET masked == JsAndMask(symbol, all)
                reverbed == IF d.legacyGlobalReverb = 0
                            THEN EffectsWithout(masked, EffectType.reverb) ELSE masked
                panned == IF instrument.pan # Config.panCenter
                          THEN EffectsWith(reverbed, EffectType.panning) ELSE reverbed
            IN  [instrument EXCEPT
                    !.reverb = IF d.legacyGlobalReverb # 0
                                  /\ effectsInclude(masked, EffectType.reverb)
                               THEN d.legacyGlobalReverb ELSE @,
                    !.effects = JsAndMask(panned, all)]
    IN  CASE command = T.effects ->
                IF v.beforeNine THEN CurrentInstrument(d, compressed, LegacyEffects)
                ELSE IF ~HasInstrument(d) THEN Throw(d, "type")
                ELSE WithInstrument(d, [Instrument(d) EXCEPT
                        !.effects = JsAndMask(Or6(b0, b1), all)], 2)
          [] command = T.volume ->
                IF v.beforeThree THEN ChannelInstrument(d, compressed, VolumeSix)
                ELSE IF v.beforeSix THEN EachInstrument(d, compressed, VolumeLoop)
                ELSE IF v.beforeSeven THEN CurrentInstrument(d, compressed, VolumeSix)
                ELSE CurrentInstrument(d, compressed, Volume)
          [] command = T.pan -> CurrentInstrument(d, compressed, Pan)

\* cases algorithm, feedbackType, feedbackAmplitude, feedbackEnvelope,
\* operatorFrequencies, operatorAmplitudes, operatorEnvelopes
FmTags(d, compressed, v, command) ==
    LET T == SongTagCode
        b0 == B(d, compressed, 0)
        instrument == Instrument(d)
        Operators(field, max) ==
            [instrument EXCEPT !.operators =
                [o \in 1 .. Config.operatorCount |->
                    [@[o] EXCEPT ![field] = clamp(0, max, B(d, compressed, o - 1))]]]
    IN  IF ~HasInstrument(d) THEN Throw(d, "type")
        ELSE CASE command = T.algorithm ->
                    WithInstrument(d, [instrument EXCEPT
                        !.algorithm = clamp(0, Config.algorithmsLength, b0)], 1)
               [] command = T.feedbackType ->
                    WithInstrument(d, [instrument EXCEPT
                        !.feedbackType = clamp(0, Config.feedbacksLength, b0)], 1)
               [] command = T.feedbackAmplitude ->
                    WithInstrument(d, [instrument EXCEPT
                        !.feedbackAmplitude = clamp(0, Config.operatorAmplitudeMax + 1, b0)], 1)
               [] command = T.feedbackEnvelope ->
                    WithInstrument(d, [instrument EXCEPT
                        !.feedbackEnvelope = clamp(0, Config.envelopesLength, b0)], 1)
               [] command = T.operatorFrequencies ->
                    WithInstrument(d, Operators("frequency", Config.operatorFrequenciesLength),
                                   Config.operatorCount)
               [] command = T.operatorAmplitudes ->
                    WithInstrument(d, Operators("amplitude", Config.operatorAmplitudeMax + 1),
                                   Config.operatorCount)
               [] command = T.operatorEnvelopes ->
                    WithInstrument(d, Operators("envelope", Config.envelopesLength),
                                   Config.operatorCount)

\* cases spectrum, harmonics
WaveTableTags(d, compressed, v, command) ==
    LET instrument == Instrument(d)
        \* points values of  width  bits each, read from the next characters
        Points(points, width) ==
            LET bits == BitFieldReader(compressed, d.charIndex,
                                      d.charIndex + (points * width + 5) \div 6)
            IN  [i \in 1 .. points |-> ReadFixed(bits, i - 1, width)]
        Bytes(points, width) == (points * width + 5) \div 6
        sw == Config.spectrumControlPointBits
        hw == Config.harmonicsControlPointBits
        drums == Points(Config.drumCount * Config.spectrumControlPoints, sw)
    IN  IF ~HasInstrument(d) THEN Throw(d, "type")
        ELSE IF command = SongTagCode.harmonics
        THEN WithInstrument(d, [instrument EXCEPT !.harmonicsWave =
                    Points(Config.harmonicsControlPoints, hw)],
                Bytes(Config.harmonicsControlPoints, hw))
        ELSE IF instrument.type = InstrumentType.spectrum
        THEN WithInstrument(d, [instrument EXCEPT !.spectrumWave =
                    Points(Config.spectrumControlPoints, sw)],
                Bytes(Config.spectrumControlPoints, sw))
        ELSE IF instrument.type = InstrumentType.drumset
        THEN WithInstrument(d, [instrument EXCEPT !.drumsetSpectrumWaves =
                    [j \in 1 .. Config.drumCount |->
                        SubSeq(drums, (j - 1) * Config.spectrumControlPoints + 1,
                               j * Config.spectrumControlPoints)]],
                Bytes(Config.drumCount * Config.spectrumControlPoints, sw))
        ELSE Throw(d, "unhandled")

\* case bars
BarsTag(d, compressed, v) ==
    LET song == d.song
        b0 == B(d, compressed, 0)
        barCount == B(d, compressed, 1)
        \* Math.ceil(n / k) for n >= 0, and NaN for NaN
        Ceil(n, k) == IF n = NaN THEN NaN ELSE IF n <= 0 THEN 0 ELSE (n + k - 1) \div k
        Times(a, c) == IF a = NaN \/ c = NaN THEN NaN ELSE a * c
        neededBits == NeededBits(IF v.beforeFive THEN song.patternsPerChannel
                                 ELSE JsAdd(song.patternsPerChannel, 1))
        count == IF getChannelCount(song) = NaN THEN 0 ELSE getChannelCount(song)
        subStringLength ==
            IF v.beforeThree THEN Ceil(barCount, 2)
            ELSE Ceil(Times(Times(getChannelCount(song), song.barCount), neededBits), 6)
        start == IF v.beforeThree THEN d.charIndex + 2 ELSE d.charIndex
        bits == BitFieldReader(compressed, start,
                               IF subStringLength = NaN THEN start ELSE start + subStringLength)
        Filled(bars, n, first, width, plus) ==
            [i \in 1 .. (IF Len(bars) > n THEN Len(bars) ELSE n) |->
                IF i <= n THEN JsAdd(ReadFixed(bits, first + i - 1, width), plus) ELSE bars[i]]
    IN  IF v.beforeThree
        THEN IF barCount # NaN /\ barCount > 0
                /\ (b0 = NaN \/ b0 < 0 \/ b0 >= Len(song.channels))
             THEN Throw(d, "type")
             ELSE IF barCount # NaN /\ barCount > 0
             THEN [d EXCEPT !.song.channels[b0 + 1].bars = Filled(@, barCount, 0, 3, 1),
                            !.charIndex = JsAdd(start, subStringLength)]
             ELSE [d EXCEPT !.charIndex = JsAdd(start, subStringLength)]
        ELSE [d EXCEPT
                !.song.channels =
                    [c \in 1 .. Len(@) |->
                        IF c <= count /\ song.barCount # NaN
                        THEN [@[c] EXCEPT !.bars =
                                Filled(@, song.barCount, (c - 1) * song.barCount, neededBits,
                                       IF v.beforeFive THEN 1 ELSE 0)]
                        ELSE @[c]],
                !.charIndex = JsAdd(start, subStringLength)]

\* the duration read in the patterns case: bits.readPartDuration(), and before
\* version 7 bits.readLegacyPartDuration() * Config.partsPerBeat / stepsPerBeat
PartDuration(r, song, v) ==
    IF v.beforeSeven
    THEN LET legacy == readLegacyPartDuration(r)
         IN  [value |-> (legacy.value * Config.partsPerBeat)
                            \div At(Config.rhythmStepsPerBeat, song.rhythm),
              r |-> legacy.r]
    ELSE readPartDuration(r)

\* the shape read in the patterns case when useOldShape is false. Every pin
\* adds 1 or more to shape.length, and a note longer than limit parts is
\* refused by validateRange whatever its pins are, so the loop over the pins
\* is followed until the length passes limit.
ReadShape(r0, song, v, limit) ==
    LET RECURSIVE PitchCount(_, _)
        PitchCount(r, n) ==
            IF n < Config.maxChordSize
            THEN LET one == read(r, 1)
                 IN  IF one.value = 1 THEN PitchCount(one.r, n + 1)
                     ELSE [value |-> n, r |-> one.r]
            ELSE [value |-> n, r |-> r]
        pitchCount == PitchCount(r0, 1)
        pinCount == readPinCount(pitchCount.r)
        initialExpression == read(pinCount.r, 2)
        \* one turn of  for (j = 0; j < shape.pinCount; j++)
        OnePin(st) ==
            IF st.j >= pinCount.value \/ st.length > limit THEN st
            ELSE LET bend == read(st.r, 1)
                     time == PartDuration(bend.r, song, v)
                     expression == read(time.r, 2)
                 IN  [r |-> expression.r, j |-> st.j + 1,
                      pins |-> Append(st.pins, [pitchBend |-> bend.value = 1,
                                                time |-> st.length + time.value,
                                                expression |-> expression.value]),
                      length |-> st.length + time.value,
                      bendCount |-> IF bend.value = 1 THEN st.bendCount + 1
                                    ELSE st.bendCount]
        RECURSIVE Pins(_, _)
        Pins(st, n) ==
            IF st.j >= pinCount.value \/ st.length > limit \/ n <= 0 THEN st
            ELSE IF n = 1 THEN OnePin(st)
            ELSE Pins(Pins(st, n \div 2), n - n \div 2)
        Shape(done) ==
            [shape |-> [pitchCount |-> pitchCount.value, pinCount |-> pinCount.value,
                        initialExpression |-> initialExpression.value,
                        pins |-> done.pins, length |-> done.length,
                        bendCount |-> done.bendCount],
             r |-> done.r]
    IN  Shape(Pins([r |-> initialExpression.r, j |-> 0, pins |-> << >>, length |-> 0,
                    bendCount |-> 0],
                   IF pinCount.value > limit + 1 THEN limit + 1 ELSE pinCount.value))

\* the pitches of one note in the patterns case: the loop over
\* shape.pitchCount + shape.bendCount pitches
ReadPitches(r0, shape, recentPitches0, lastPitch0) ==
    LET \* pitch moved |interval| pitches up or down, passing over the pitches
        \* in recent: the pitch q with |interval| pitches outside recent
        \* between pitch (excluded) and q (included)
        Step(pitch, interval, recent) ==
            LET dir == IF interval > 0 THEN 1 ELSE 0 - 1
                n == IF interval > 0 THEN interval ELSE 0 - interval
                Passed(q) == Cardinality({ x \in { recent[k] : k \in 1 .. Len(recent) } :
                                             /\ (x - pitch) * dir > 0
                                             /\ (q - x) * dir >= 0 })
                RECURSIVE Settle(_)
                Settle(q) == IF pitch + dir * (n + Passed(q)) = q THEN q
                             ELSE Settle(pitch + dir * (n + Passed(q)))
            IN  IF interval = 0 THEN pitch ELSE Settle(pitch + dir * n)
        \* the pitch of turn st.j is stored: index is its place in recentPitches,
        \* -1 for a pitch read as an interval
        Place(st, r, index, pitch) ==
            LET newPitches == IF st.j < shape.pitchCount THEN Append(st.pitches, pitch)
                              ELSE st.pitches
            IN  [r |-> r, j |-> st.j + 1,
                 recentPitches |-> Recent(st.recentPitches, index, pitch, 8),
                 lastPitch |-> IF st.j = shape.pitchCount - 1 THEN newPitches[1]
                               ELSE pitch,
                 pitches |-> newPitches,
                 pitchBends |-> IF st.j < shape.pitchCount THEN st.pitchBends
                                ELSE Append(st.pitchBends, pitch),
                 threw |-> FALSE]
        OldPitch(st, pitchIndex) ==
            IF ~InRange(0, Len(st.recentPitches) - 1, pitchIndex.value)
            THEN [st EXCEPT !.threw = TRUE]
            ELSE Place(st, pitchIndex.r, pitchIndex.value,
                       st.recentPitches[pitchIndex.value + 1])
        NewPitch(st, interval) ==
            Place(st, interval.r, 0 - 1,
                  Step(st.lastPitch, interval.value, st.recentPitches))
        OnePitch(st) ==
            IF st.threw \/ st.j >= shape.pitchCount + shape.bendCount THEN st
            ELSE LET useOldPitch == read(st.r, 1)
                 IN  IF useOldPitch.value = 1 THEN OldPitch(st, read(useOldPitch.r, 3))
                     ELSE NewPitch(st, readPitchInterval(useOldPitch.r))
        RECURSIVE Loop(_, _)
        Loop(st, n) ==
            IF st.threw \/ n <= 0 THEN st
            ELSE IF n = 1 THEN OnePitch(st)
            ELSE Loop(Loop(st, n \div 2), n - n \div 2)
    IN  Loop([r |-> r0, j |-> 0, recentPitches |-> recentPitches0,
              lastPitch |-> lastPitch0, pitches |-> << >>, pitchBends |-> << >>,
              threw |-> FALSE],
             shape.pitchCount + shape.bendCount)

\* the pins of the note: the loop  for (const pinObj of shape.pins) , which
\* takes the next of pitchBends at every pin with a bend
NotePins(shape, pitches, pitchBends0) ==
    LET all == << pitches[1] >> \o pitchBends0
        Bends(i) == Cardinality({ k \in 1 .. i : shape.pins[k].pitchBend })
    IN  << makeNotePin(0, 0, shape.initialExpression) >>
        \o [i \in 1 .. Len(shape.pins) |->
                makeNotePin(JsAdd(At(all, Bends(i)), 0 - pitches[1]),
                            shape.pins[i].time, shape.pins[i].expression)]

PlaceNoteKeepsLastPitch(st, full, index, shape, p) ==
    LET note == [pitches |-> p.pitches,
                 pins |-> NotePins(shape, p.pitches, p.pitchBends),
                 start |-> st.curPart,
                 end |-> st.curPart + shape.length]
    IN  IF p.threw \/ ~InRange(0, full, note.end)
        THEN [st EXCEPT !.threw = "range"]
        ELSE [st EXCEPT
                !.r = p.r, !.curPart = note.end,
                !.notes = Append(st.notes, note),
                !.recentShapes = Recent(st.recentShapes, index, shape, 10),
                !.recentPitches = p.recentPitches]

\* the note of the shape and the pitches p is added to the pattern; index is
\* the place of the shape in recentShapes, -1 for a shape read anew
PlaceNote(st, full, index, shape, p) ==
    LET note == [pitches |-> p.pitches,
                 pins |-> NotePins(shape, p.pitches, p.pitchBends),
                 start |-> st.curPart,
                 end |-> st.curPart + shape.length]
    IN  IF p.threw \/ ~InRange(0, full, note.end)
        THEN [st EXCEPT !.threw = "range"]
        ELSE [st EXCEPT
                !.r = p.r, !.curPart = note.end,
                !.notes = Append(st.notes, note),
                !.recentShapes = Recent(st.recentShapes, index, shape, 10),
                !.recentPitches = p.recentPitches,
                !.lastPitch = p.lastPitch]

\* the note of the shape picked.shape, its pitches read at picked.r
ShapedNote(st, full, index, picked) ==
    PlaceNote(st, full, index, picked.shape,
              ReadPitches(picked.r, picked.shape, st.recentPitches, st.lastPitch))

\* one turn of  while (curPart < this.beatsPerBar * Config.partsPerBeat) ; st
\* holds r, curPart, notes, recentShapes, recentPitches, lastPitch and threw
OneNote(st, song, v) ==
    LET full == IF song.beatsPerBar = NaN THEN NaN ELSE song.beatsPerBar * Config.partsPerBeat
        stepsPerBeat == At(Config.rhythmStepsPerBeat, song.rhythm)
        useOldShape == read(st.r, 1)
        old == useOldShape.value = 1
        shapeIndex == readLongTail(useOldShape.r, 0, 0)
        newNote == read(useOldShape.r, 1)
        restLength == PartDuration(newNote.r, song, v)
    IN  IF st.threw # "none" \/ full = NaN \/ st.curPart >= full THEN st
        ELSE IF old /\ ~InRange(0, Len(st.recentShapes) - 1, shapeIndex.value)
        THEN [st EXCEPT !.threw = "range"]
        ELSE IF ~old /\ v.beforeSeven /\ stepsPerBeat = NaN
        THEN [st EXCEPT !.threw = "type"]
        ELSE IF ~old /\ newNote.value # 1
        THEN [st EXCEPT !.r = restLength.r, !.curPart = @ + restLength.value]
        ELSE ShapedNote(st, full, IF old THEN shapeIndex.value ELSE 0 - 1,
                        IF old THEN [shape |-> st.recentShapes[shapeIndex.value + 1],
                                     r |-> shapeIndex.r]
                        ELSE ReadShape(newNote.r, song, v, full))

\* OneNote applied n times; every turn moves curPart on by 1 or more
RECURSIVE ReadNotes(_, _, _, _)
ReadNotes(st, song, v, n) ==
    IF st.threw # "none" \/ n <= 0 THEN st
    ELSE IF n = 1 THEN OneNote(st, song, v)
    ELSE ReadNotes(ReadNotes(st, song, v, n \div 2), song, v, n - n \div 2)

\* the loop  while (curPart < this.beatsPerBar * Config.partsPerBeat)  to its
\* end, by runs of size, 2 * size, ... turns
RECURSIVE NoteRuns(_, _, _, _)
NoteRuns(st, song, v, size) ==
    IF st.threw # "none" \/ song.beatsPerBar = NaN
       \/ st.curPart >= song.beatsPerBar * Config.partsPerBeat
    THEN st
    ELSE NoteRuns(ReadNotes(st, song, v, size), song, v, 2 * size)

\* one turn of  for (i = 0; i < this.patternsPerChannel; i++)  of a channel; st
\* also holds i and the patterns of the channel
OnePattern(st, song, v) ==
    LET instrument == read(st.r, NeededBits(song.instrumentsPerChannel))
        filled == IF v.beforeThree THEN [value |-> 1, r |-> instrument.r]
                  ELSE read(instrument.r, 1)
        Store(n) == [n EXCEPT !.patterns[st.i + 1] = [notes |-> n.notes,
                                                      instrument |-> instrument.value],
                              !.i = st.i + 1]
    IN  IF st.threw # "none" \/ song.patternsPerChannel = NaN
           \/ st.i >= song.patternsPerChannel
        THEN st
        ELSE IF st.i >= Len(st.patterns) THEN [st EXCEPT !.threw = "type"]
        ELSE Store(IF filled.value = 0
                   THEN [st EXCEPT !.r = filled.r, !.notes = << >>]
                   ELSE NoteRuns([st EXCEPT !.r = filled.r, !.notes = << >>,
                                            !.curPart = 0],
                                 song, v, 1))

\* OnePattern applied n times
RECURSIVE ReadPatterns(_, _, _, _)
ReadPatterns(st, song, v, n) ==
    IF st.threw # "none" \/ n <= 0 THEN st
    ELSE IF n = 1 THEN OnePattern(st, song, v)
    ELSE ReadPatterns(ReadPatterns(st, song, v, n \div 2), song, v, n - n \div 2)

\* one turn of  while (true)  over the channels; cs holds channels, r, channel,
\* threw and done, which the break sets
OneChannel(cs, song, v) ==
    LET channel == cs.channel
        isNoiseChannel == getChannelIsNoise(song, channel)
        octaveOffset == IF isNoiseChannel THEN 0
                        ELSE cs.channels[channel + 1].octave * 12
        base == IF isNoiseChannel THEN << 4, 6, 7, 2, 3, 8, 0, 10 >>
                ELSE << 12, 19, 24, 31, 36, 7, 0 >>
        Stored(st) ==
            [channels |-> [cs.channels EXCEPT ![channel + 1].patterns = st.patterns],
             r |-> st.r, channel |-> channel + 1, threw |-> st.threw,
             done |-> st.threw # "none" \/ v.beforeThree \/ getChannelCount(song) = NaN
                      \/ channel + 1 >= getChannelCount(song)]
    IN  IF cs.done THEN cs
        ELSE IF channel = NaN \/ channel < 0 \/ channel >= Len(cs.channels)
        THEN [cs EXCEPT !.threw = "type", !.done = TRUE]
        ELSE Stored(ReadPatterns(
                        [r |-> cs.r, curPart |-> 0, notes |-> << >>, i |-> 0,
                         recentShapes |-> << >>,
                         recentPitches |-> [k \in 1 .. Len(base) |->
                                                base[k] + octaveOffset],
                         lastPitch |-> (IF isNoiseChannel THEN 4 ELSE 12) + octaveOffset,
                         threw |-> "none",
                         patterns |-> cs.channels[channel + 1].patterns],
                        song, v,
                        IF song.patternsPerChannel = NaN THEN 0
                        ELSE song.patternsPerChannel))

\* OneChannel applied n times: the loop ends after getChannelCount() turns
RECURSIVE ReadChannels(_, _, _, _)
ReadChannels(cs, song, v, n) ==
    IF cs.done \/ n <= 0 THEN cs
    ELSE IF n = 1 THEN OneChannel(cs, song, v)
    ELSE ReadChannels(ReadChannels(cs, song, v, n \div 2), song, v, n - n \div 2)

\* case patterns
PatternsTag(d, compressed, v) ==
    LET song == d.song
        b0 == B(d, compressed, 0)
        bitStringLengthLength == b0
        RECURSIVE Digits(_, _)
        Digits(k, acc) ==
            IF k > bitStringLengthLength THEN acc
            ELSE Digits(k + 1, JsAdd(Shl(acc, 6), B(d, compressed, k)))
        bitStringLength ==
            IF v.beforeThree THEN JsAdd(Shl(B(d, compressed, 2), 6), B(d, compressed, 3))
            ELSE Digits(1, 0)
        start == IF v.beforeThree THEN d.charIndex + 4
                 ELSE d.charIndex + 1 + bitStringLengthLength
        bits == BitFieldReader(compressed, start,
                               IF bitStringLength = NaN THEN start ELSE start + bitStringLength)
        Finish(result) ==
            IF result.threw # "none"
            THEN Throw([d EXCEPT !.song.channels = result.channels], result.threw)
            ELSE [d EXCEPT !.song.channels = result.channels,
                           !.charIndex = JsAdd(start, bitStringLength)]
    IN  IF ~v.beforeThree /\ ~InRange(1, 4, bitStringLengthLength) THEN Throw(d, "range")
        ELSE Finish(ReadChannels([channels |-> song.channels, r |-> bits,
                                  channel |-> IF v.beforeThree THEN b0 ELSE 0,
                                  threw |-> "none", done |-> FALSE],
                                 song, v,
                                 IF getChannelCount(song) = NaN THEN 1
                                 ELSE getChannelCount(song) + 1))

\* the version flags with the latest version taken for one before it
VersionFlagsLatestIsLegacy(version) ==
    [beforeThree |-> version # NaN /\ version < 3,
     beforeFour  |-> version # NaN /\ version < 4,
     beforeFive  |-> version # NaN /\ version < 5,
     beforeSix   |-> version # NaN /\ version < 6,
     beforeSeven |-> version # NaN /\ version < 7,
     beforeEight |-> version # NaN /\ version < 8,
     beforeNine  |-> version # NaN /\ version <= 9]

\* the version flags of fromBase64String; an undefined version compares false
VersionFlags(version) ==
    [beforeThree |-> version # NaN /\ version < 3,
     beforeFour  |-> version # NaN /\ version < 4,
     beforeFive  |-> version # NaN /\ version < 5,
     beforeSix   |-> version # NaN /\ version < 6,
     beforeSeven |-> version # NaN /\ version < 7,
     beforeEight |-> version # NaN /\ version < 8,
     beforeNine  |-> version # NaN /\ version < 9]

\* the switch with a default case that passes over the character
DispatchSkipsUnknown(d, compressed, v, command) ==
    LET T == SongTagCode
    IN  CASE command \in {T.channelCount, T.scale, T.key, T.loopStart, T.loopEnd, T.tempo,
                          T.reverb} ->
                SongSettingTags(d, compressed, v, command)
          [] command \in {T.beatCount, T.barCount, T.patternCount, T.instrumentCount,
                          T.rhythm, T.channelOctave} ->
                SongSizeTags(d, compressed, v, command)
          [] command \in {T.startInstrument, T.preset} ->
                StartInstrumentTags(d, compressed, v, command)
          [] command = T.wave -> WaveTag(d, compressed, v)
          [] command \in {T.filter, T.filterResonance, T.distortionFilter,
                          T.filterEnvelope} ->
                FilterTags(d, compressed, v, command)
          [] command \in {T.pulseWidth, T.distortion, T.bitcrusher, T.sustain} ->
                ShapeTags(d, compressed, v, command)
          [] command \in {T.transition, T.vibrato, T.interval, T.chord} ->
                ToneTags(d, compressed, v, command)
          [] command \in {T.effects, T.volume, T.pan} ->
                MixTags(d, compressed, v, command)
          [] command \in {T.algorithm, T.feedbackType, T.feedbackAmplitude,
                          T.feedbackEnvelope, T.operatorFrequencies, T.operatorAmplitudes,
                          T.operatorEnvelopes} ->
                FmTags(d, compressed, v, command)
          [] command \in {T.spectrum, T.harmonics} ->
                WaveTableTags(d, compressed, v, command)
          [] command = T.bars -> BarsTag(d, compressed, v)
          [] command = T.patterns -> PatternsTag(d, compressed, v)
          [] OTHER ->
                d

\* the body of  switch (command = compressed.charCodeAt(charIndex++)) , d being
\* the state with charIndex already advanced past the tag
Dispatch(d, compressed, v, command) ==
    LET T == SongTagCode
    IN  CASE command \in {T.channelCount, T.scale, T.key, T.loopStart, T.loopEnd, T.tempo,
                          T.reverb} ->
                SongSettingTags(d, compressed, v, command)
          [] command \in {T.beatCount, T.barCount, T.patternCount, T.instrumentCount,
                          T.rhythm, T.channelOctave} ->
                SongSizeTags(d, compressed, v, command)
          [] command \in {T.startInstrument, T.preset} ->
                StartInstrumentTags(d, compressed, v, command)
          [] command = T.wave -> WaveTag(d, compressed, v)
          [] command \in {T.filter, T.filterResonance, T.distortionFilter,
                          T.filterEnvelope} ->
                FilterTags(d, compressed, v, command)
          [] command \in {T.pulseWidth, T.distortion, T.bitcrusher, T.sustain} ->
                ShapeTags(d, compressed, v, command)
          [] command \in {T.transition, T.vibrato, T.interval, T.chord} ->
                ToneTags(d, compressed, v, command)
          [] command \in {T.effects, T.volume, T.pan} ->
                MixTags(d, compressed, v, command)
          [] command \in {T.algorithm, T.feedbackType, T.feedbackAmplitude,
                          T.feedbackEnvelope, T.operatorFrequencies, T.operatorAmplitudes,
                          T.operatorEnvelopes} ->
                FmTags(d, compressed, v, command)
          [] command \in {T.spectrum, T.harmonics} ->
                WaveTableTags(d, compressed, v, command)
          [] command = T.bars -> BarsTag(d, compressed, v)
          [] command = T.patterns -> PatternsTag(d, compressed, v)
          [] OTHER ->
                [d EXCEPT !.error = [kind |-> "unknown", char |-> command,
                                     index |-> d.charIndex - 1]]

\* the next character is the tag of a patterns record
AtPatterns(d, compressed) == CharCodeAt(compressed, d.charIndex) = SongTagCode.patterns

\* n turns of  while (charIndex < compressed.length) switch (...) , up to the
\* next patterns record: a turn takes one character or more, so
\* Len(compressed) turns reach it or the end
RECURSIVE Tags(_, _, _, _)
Tags(d, compressed, v, n) ==
    IF d.error.kind # "none" \/ n <= 0 \/ AtPatterns(d, compressed) THEN d
    ELSE IF n = 1
    THEN IF d.charIndex = NaN \/ d.charIndex >= Len(compressed) THEN d
         ELSE Dispatch([d EXCEPT !.charIndex = @ + 1], compressed, v,
                       CharCodeAt(compressed, d.charIndex))
    ELSE Tags(Tags(d, compressed, v, n \div 2), compressed, v, n - n \div 2)

\* the loop  while (charIndex < compressed.length) switch (...)  to its end: the
\* records up to a patterns record, that record, and so on
RECURSIVE Records(_, _, _)
Records(d, compressed, v) ==
    IF d.error.kind # "none" \/ d.charIndex = NaN \/ d.charIndex >= Len(compressed)
    THEN d
    ELSE IF AtPatterns(d, compressed)
    THEN Records(Dispatch([d EXCEPT !.charIndex = @ + 1], compressed, v,
                          SongTagCode.patterns),
                 compressed, v)
    ELSE Records(Tags(d, compressed, v, Len(compressed)), compressed, v)

\* this.fromBase64String(compressed) on the Song  song : the state in which the
\* call ends, error.kind = "none" when it returns. A string starting with a
\* curly brace goes to fromJsonObject, which is reported as kind "json".
fromBase64String(song, compressed) ==
    LET RECURSIVE Skip(_)
        Skip(i) == IF CharCodeAt(compressed, i) # NaN /\ CharCodeAt(compressed, i) <= 32
                   THEN Skip(i + 1) ELSE i
        first == IF CharCodeAt(compressed, Skip(0)) = 35 THEN Skip(0) + 1 ELSE Skip(0)
        version == Base64At(compressed, first)
        v == VersionFlags(version)
        start == [song |-> song, charIndex |-> first, legacy |-> << >>,
                  legacyGlobalReverb |-> 0, ch |-> 0, ix |-> 0 - 1, error |-> NoError]
        reset == initToDefault(song, v.beforeSix)
        initial ==
            IF v.beforeThree
            THEN [reset EXCEPT !.channels =
                    [c \in 1 .. Len(@) |->
                        [@[c] EXCEPT !.instruments[1].transition = 0,
                                     !.instruments[1].chipNoise = IF c = 4 THEN 0 ELSE @]]]
            ELSE reset
    IN  IF compressed = << >> THEN [start EXCEPT !.song = initToDefault(song, TRUE)]
        ELSE IF CharCodeAt(compressed, first) = 123
        THEN [start EXCEPT !.error = [kind |-> "json", char |-> NaN, index |-> NaN]]
        ELSE IF version # NaN /\ (version = 0 - 1 \/ version > 9 \/ version < 2)
        THEN [start EXCEPT !.charIndex = first + 1]
        ELSE Records([start EXCEPT !.song = initial, !.charIndex = first + 1,
                                   !.legacy = IF v.beforeNine
                                              THEN GrowLegacy(<< >>, initial) ELSE << >>],
                     compressed, v)

----------------------------------------------------------------------------
(* The long-tail code on its own *)

MaxMinValue == 2
MaxMinBits == 4
MaxDelta == 40
MaxLead == 2

NoReader == [bits |-> << >>, readIndex |-> 0]

\* no filter converted and no playback under way
PlaybackIdle ==
    /\ settings = NewFilter /\ legacyArgs = NaN /\ synth = NaN /\ calls = 0
    /\ delay = NaN /\ audio = NaN /\ flash = NaN
    /\ buffer = NaN /\ walk = NaN /\ tour = NaN

InitBits ==
    /\ pc = "write"
    /\ ltIn \in [minValue : 0 .. MaxMinValue, minBits : 0 .. MaxMinBits,
                 value : 0 .. MaxMinValue + MaxDelta, lead : 0 .. MaxLead]
    /\ ltIn.value >= ltIn.minValue
    /\ writer = NewWriter
    /\ reader = NoReader
    /\ ltOut = NaN
    /\ input = NaN /\ url = << >> /\ decoded = NaN
    /\ reurl = << >> /\ redecoded = NaN /\ choice = << >>
    /\ PlaybackIdle

\* lead bits, then writeLongTail(minValue, minBits, value)
WriteTail ==
    /\ pc = "write"
    /\ writer' = writeLongTail(write(writer, ltIn.lead, 1), ltIn.minValue, ltIn.minBits, ltIn.value)
    /\ pc' = "frame"
    /\ UNCHANGED << reader, ltIn, ltOut, codec, playback >>

\* the written bits, framed as base64 symbols and unpacked by a reader,
\* which first reads the lead bits
FrameBits ==
    /\ pc = "frame"
    /\ LET chars == encodeBase64(writer)
       IN  reader' = read(BitFieldReader(chars, 0, Len(chars)), ltIn.lead).r
    /\ pc' = "read"
    /\ UNCHANGED << writer, ltIn, ltOut, codec, playback >>

ReadTail ==
    /\ pc = "read"
    /\ LET got == readLongTail(reader, ltIn.minValue, ltIn.minBits)
       IN  /\ ltOut' = got.value
           /\ reader' = got.r
    /\ pc' = "done"
    /\ UNCHANGED << writer, ltIn, codec, playback >>

NextBits == WriteTail \/ FrameBits \/ ReadTail

SpecBits == InitBits /\ [][NextBits]_vars

\* C1: readLongTail on the bits written by writeLongTail returns the value
\* written, and the reader stands at the bit position the writer reached.
LongTailRoundTrip ==
    pc = "done" => /\ ltOut = ltIn.value
                   /\ reader.readIndex = writer.index
                   /\ ~writer.threw

\* a long-tail value with a unary prefix has been written and read back
LongTailRoundTripWitness ==
    /\ pc = "done"
    /\ ltIn.value - ltIn.minValue >= Pow2(ltIn.minBits)
    /\ ltIn.lead > 0
    /\ writer.index > ltIn.lead + ltIn.minBits + 1

----------------------------------------------------------------------------
(* Songs to encode: the default song with its fields set within their      *)
(* ranges.  level 0 takes the least value of each range, 2 the greatest,   *)
(* 1 a value in between.                                                   *)

MaxNotes == 2

Levels == 0 .. 2

Pick(min, max, level) ==
    CASE level = 0 -> min
      [] level = 2 -> max
      [] OTHER -> (min + max) \div 2

\* the i-th note of a pattern, i from 0: notes of 12 parts two parts apart,
\* one pitch or a chord, flat or with a bend and a change of expression
NoteAt(i, isNoiseChannel, level) ==
    LET start == 14 * i + 2 * (i % 2)
        pitch == IF isNoiseChannel THEN 2 + (i % 5) ELSE 20 + 5 * (i % 9) + level
        step == IF isNoiseChannel THEN 1 ELSE 3
        pitches == CASE i % 3 = 0 -> << pitch >>
                     [] i % 3 = 1 -> << pitch, pitch + 2 * step >>
                     [] OTHER -> [k \in 1 .. Config.maxChordSize |-> pitch + (k - 1) * step]
        flat == Note(pitch, start, start + 12, 3 - level)
    IN  IF i % 2 = 0 THEN [flat EXCEPT !.pitches = pitches]
        ELSE [pitches |-> pitches, start |-> start, end |-> start + 12,
              pins |-> << makeNotePin(0, 0, 1), makeNotePin(2, 5, 3),
                          makeNotePin(0 - 1, 12, level) >>]

\* a filter with count points of every type, frequency and gain
FilterOf(count, level) ==
    [controlPointCount |-> count,
     controlPoints |-> [k \in 1 .. count |->
        [type |-> (k + level) % 3,
         freq |-> Pick(0, Config.filterFreqRange - 1, (k + level) % 3),
         gain |-> Pick(0, Config.filterGainRange - 1, (k + 2 * level) % 3)]]]

\* an instrument of the type with every field set at the level
InstrumentAt(type, isNoiseChannel, level, effects) ==
    LET reset == setTypeAndReset(NewInstrument(isNoiseChannel), type, isNoiseChannel)
        P(range) == Pick(0, range - 1, level)
        wave(n, max) == [k \in 1 .. n |-> Pick(0, max, (k + level) % 3)]
    IN  [reset EXCEPT
            !.preset = Pick(0, 4095, level), !.effects = effects,
            !.volume = P(Config.volumeRange),
            !.filter = FilterOf(Pick(0, Config.filterMaxPoints, level), level),
            !.distortionFilter = FilterOf(Pick(0, Config.filterMaxPoints, 2 - level), level),
            !.distortion = P(Config.distortionRange),
            !.bitcrusherFreq = P(Config.bitcrusherFreqRange),
            !.bitcrusherQuantization = P(Config.bitcrusherQuantizationRange),
            !.pan = Pick(0, Config.panMax, level),
            !.reverb = P(Config.reverbRange),
            !.transition = P(Config.transitionsLength),
            !.filterEnvelope = P(Config.envelopesLength),
            !.chord = P(Config.chordsLength),
            !.chipWave = P(Config.chipWavesLength),
            !.chipNoise = P(Config.chipNoisesLength),
            !.vibrato = P(Config.vibratosLength),
            !.interval = P(Config.intervalsLength),
            !.pulseWidth = P(Config.pulseWidthRange),
            !.pulseEnvelope = P(Config.envelopesLength),
            !.sustain = P(Config.sustainRange),
            !.algorithm = P(Config.algorithmsLength),
            !.feedbackType = P(Config.feedbacksLength),
            !.feedbackAmplitude = Pick(0, Config.operatorAmplitudeMax, level),
            !.feedbackEnvelope = P(Config.envelopesLength),
            !.operators = [o \in 1 .. Config.operatorCount |->
                [frequency |-> Pick(0, Config.operatorFrequenciesLength - 1, (o + level) % 3),
                 amplitude |-> Pick(0, Config.operatorAmplitudeMax, (o + 2 * level) % 3),
                 envelope |-> Pick(0, Config.envelopesLength - 1, (o + level + 1) % 3)]],
            !.spectrumWave = wave(Config.spectrumControlPoints, Config.spectrumMax),
            !.harmonicsWave = wave(Config.harmonicsControlPoints, Config.harmonicsMax),
            !.drumsetEnvelopes = [k \in 1 .. Config.drumCount |->
                Pick(0, Config.envelopesLength - 1, (k + level) % 3)],
            !.drumsetSpectrumWaves = [k \in 1 .. Config.drumCount |->
                [j \in 1 .. Config.spectrumControlPoints |->
                    Pick(0, Config.spectrumMax, (k + j + level) % 3)]]]

\* the sizes of the song at a level: the least, the default, and sizes that
\* need two symbols for the bar and pattern counts
SizesAt(level) ==
    CASE level = 0 -> [pitch |-> Config.pitchChannelCountMin, noise |-> 1,
                       instruments |-> Config.instrumentsPerChannelMin,
                       patterns |-> 1, bars |-> Config.barCountMin,
                       beats |-> Config.beatsPerBarMin]
      [] level = 2 -> [pitch |-> 2, noise |-> 2, instruments |-> 3,
                       patterns |-> 65, bars |-> 70, beats |-> Config.beatsPerBarMax]
      [] OTHER -> [pitch |-> 3, noise |-> 1, instruments |-> 1,
                   patterns |-> 8, bars |-> 16, beats |-> 8]

NoiseTypes == {InstrumentType.noise, InstrumentType.spectrum, InstrumentType.drumset}

EffectMasks == << 0, 12, 31 >>

\* the song with instruments of the type (where the channel allows it), every
\* field at the level, the effects of the mask, and patterns of noteCount notes
SongAt(type, level, mask, noteCount) ==
    LET z == SizesAt(level)
        Channel(c) ==
            LET isNoiseChannel == c > z.pitch
                t == IF isNoiseChannel
                     THEN (IF type \in NoiseTypes THEN type ELSE InstrumentType.noise)
                     ELSE (IF type \in NoiseTypes \ {InstrumentType.spectrum}
                           THEN InstrumentType.chip ELSE type)
            IN  [octave |-> IF isNoiseChannel THEN 0
                            ELSE Pick(0, Config.scrollableOctaves, (c + level) % 3),
                 instruments |-> [i \in 1 .. z.instruments |->
                     InstrumentAt(t, isNoiseChannel, (i + level + 2) % 3, mask)],
                 patterns |-> [p \in 1 .. z.patterns |->
                     [instrument |-> (p + c) % z.instruments,
                      notes |-> IF p > 2 THEN << >>
                                ELSE [n \in 1 .. noteCount - (p - 1) |->
                                         NoteAt(n - 1, isNoiseChannel, level)]]],
                 bars |-> [b \in 1 .. z.bars |-> (7 * b + c + level) % (z.patterns + 1)]]
        loopStart == Pick(0, z.bars - 1, level)
    IN  [scale |-> Pick(0, Config.scalesLength - 1, level),
         key |-> Pick(0, Config.keysLength - 1, level),
         tempo |-> Pick(Config.tempoMin, Config.tempoMax, level),
         rhythm |-> Pick(0, Len(Config.rhythmStepsPerBeat) - 1, level),
         beatsPerBar |-> z.beats, barCount |-> z.bars,
         patternsPerChannel |-> z.patterns, instrumentsPerChannel |-> z.instruments,
         loopStart |-> loopStart,
         loopLength |-> Pick(1, z.bars - loopStart, 1),
         pitchChannelCount |-> z.pitch, noiseChannelCount |-> z.noise,
         channels |-> [c \in 1 .. z.pitch + z.noise |-> Channel(c)]]

----------------------------------------------------------------------------
(* toBase64String, then fromBase64String on a new Song *)

InitRoundTrip ==
    /\ pc = "song"
    /\ \E type \in 0 .. InstrumentType.length - 1, level \in Levels,
          m \in 1 .. Len(EffectMasks), noteCount \in 0 .. MaxNotes :
            input = SongAt(type, level, EffectMasks[m], noteCount)
    /\ url = << >> /\ decoded = NaN
    /\ reurl = << >> /\ redecoded = NaN /\ choice = << >>
    /\ writer = NewWriter /\ reader = NoReader /\ ltIn = NaN /\ ltOut = NaN
    /\ PlaybackIdle

\* url = song.toBase64String()
Encode ==
    /\ pc = "song"
    /\ url' = toBase64String(input)
    /\ pc' = "url"
    /\ UNCHANGED << input, decoded, reurl, redecoded, choice, bitio, playback >>

\* new Song().fromBase64String(url)
Decode ==
    /\ pc = "url"
    /\ decoded' = fromBase64String(FreshSong, url)
    /\ pc' = "decoded"
    /\ UNCHANGED << input, url, reurl, redecoded, choice, bitio, playback >>

NextRoundTrip == Encode \/ Decode

SpecRoundTrip == InitRoundTrip /\ [][NextRoundTrip]_vars

\* the control points a filter has: the array keeps those of earlier, longer
\* settings behind controlPointCount
FilterView(filter) ==
    [controlPointCount |-> filter.controlPointCount,
     controlPoints |-> [k \in 1 .. filter.controlPointCount |->
                            At(filter.controlPoints, k - 1)]]

\* the names of the fields toBase64String writes for the instrument
WrittenFields(instrument) ==
    LET on(effect) == effectsInclude(instrument.effects, effect)
        type == instrument.type
    IN  {"type", "volume", "preset", "effects", "filter"}
        \cup (IF on(EffectType.distortion) THEN {"distortion", "distortionFilter"} ELSE {})
        \cup (IF on(EffectType.bitcrusher)
              THEN {"bitcrusherFreq", "bitcrusherQuantization"} ELSE {})
        \cup (IF on(EffectType.panning) THEN {"pan"} ELSE {})
        \cup (IF on(EffectType.reverb) THEN {"reverb"} ELSE {})
        \cup (IF type # InstrumentType.drumset
              THEN {"transition", "filterEnvelope", "chord"} ELSE {})
        \cup (CASE type = InstrumentType.chip -> {"chipWave", "vibrato", "interval"}
                [] type = InstrumentType.fm ->
                     {"vibrato", "algorithm", "feedbackType", "feedbackAmplitude",
                      "feedbackEnvelope", "operators"}
                [] type = InstrumentType.noise -> {"chipNoise"}
                [] type = InstrumentType.spectrum -> {"spectrumWave"}
                [] type = InstrumentType.drumset ->
                     {"drumsetEnvelopes", "drumsetSpectrumWaves"}
                [] type = InstrumentType.harmonics ->
                     {"vibrato", "interval", "harmonicsWave"}
                [] type = InstrumentType.pwm -> {"vibrato", "pulseWidth", "pulseEnvelope"}
                [] type = InstrumentType.guitar -> {"pulseWidth", "vibrato", "sustain"}
                [] OTHER -> {})

\* the instrument as the reader of its records rebuilds it: the written fields,
\* and what setTypeAndReset leaves in the others
WrittenInstrument(instrument, isNoiseChannel) ==
    LET reset == setTypeAndReset(NewInstrument(isNoiseChannel), instrument.type,
                                 isNoiseChannel)
    IN  [f \in DOMAIN instrument |->
            IF f \in WrittenFields(instrument) THEN instrument[f] ELSE reset[f]]

\* the song as the reader of its string rebuilds it
WrittenSong(song) ==
    [song EXCEPT !.channels = [c \in 1 .. Len(@) |->
        [@[c] EXCEPT !.instruments = [i \in 1 .. Len(@) |->
            WrittenInstrument(@[i], getChannelIsNoise(song, c - 1))]]]]

\* the instrument with its filters cut to their control points
InstrumentView(instrument) ==
    [f \in DOMAIN instrument |->
        IF f \in {"filter", "distortionFilter"} THEN FilterView(instrument[f])
        ELSE instrument[f]]

\* the song with its filters cut to their control points
SongView(song) ==
    [song EXCEPT !.channels = [c \in 1 .. Len(@) |->
        [@[c] EXCEPT !.instruments = [i \in 1 .. Len(@) |->
            InstrumentView(@[i])]]]]

\* C2 as stated: the song read back from the string of S equals S in every
\* field, for S with every field within its range.
RoundTripEveryField ==
    pc = "decoded" =>
        /\ decoded.error.kind = "none"
        /\ SongView(decoded.song) = SongView(input)

\* C2: the song read back from the string of S equals S in every song field,
\* bar, pattern and note and in every instrument field that toBase64String
\* writes for the instrument's type and enabled effects; the fields it does not
\* write come back as setTypeAndReset leaves them.
RoundTripWrittenFields ==
    pc = "decoded" =>
        /\ decoded.error.kind = "none"
        /\ SongView(decoded.song) = SongView(WrittenSong(input))

\* a song with notes, chords and bends, two-symbol counts and fields the
\* writer leaves out has been written and read back
RoundTripWrittenFieldsWitness ==
    /\ pc = "decoded"
    /\ WrittenSong(input) # input
    /\ input.barCount > 64
    /\ \E c \in 1 .. Len(input.channels) :
          \E p \in 1 .. Len(input.channels[c].patterns) :
             \E n \in 1 .. Len(input.channels[c].patterns[p].notes) :
                LET note == input.channels[c].patterns[p].notes[n]
                IN  Len(note.pins) > 2 /\ Len(note.pitches) > 1
    /\ decoded.song.channels = SongView(WrittenSong(input)).channels

----------------------------------------------------------------------------
(* Strings to decode: for every version a few size records, then one        *)
(* record under test whose payload is any short run of symbols.             *)

MaxPayload == 2
MaxReverb == 4
MaxGood == 3

\* the symbols 1 and 63, and "!" , which is no symbol and reads as 0
ProbeSymbols == { CharOf(1), CharOf(63), 33 }

\* the sequences of at most n elements of S
SeqsUpTo(S, n) == UNION { [1 .. k -> S] : k \in 0 .. n }

Versions == 2 .. 9

\* channelCount (from version 6), loop, beatCount, barCount, patternCount and
\* instrumentCount records in the payload widths of the version: a pitch
\* channel, noise noise channels and two bars from version 6, else the four
\* channels and one bar
SizeRecords(version, patterns, noise) ==
    LET T == SongTagCode
        c(n) == CharOf(n)
    IN  (IF version >= 6 THEN << T.channelCount, c(1), c(noise) >> ELSE << >>)
        \o (IF version < 5 THEN << T.loopStart, c(0), T.loopEnd, c(1) >>
            ELSE << T.loopStart, c(0), c(0), T.loopEnd, c(0), c(0) >>)
        \o << T.beatCount, c(IF version < 3 THEN 0 ELSE 2),
              T.barCount, c(0), c(IF version >= 6 THEN 1 ELSE 0), T.patternCount >>
        \o (IF version < 8 THEN << c(patterns - 1) >> ELSE << c(0), c(patterns - 1) >>)
        \o << T.instrumentCount, c(0) >>

\* records that each decode in every version
GoodRecords ==
    LET T == SongTagCode
    IN  << << T.scale, CharOf(5) >>, << T.rhythm, CharOf(2) >>, << T.key, CharOf(7) >>,
           << T.scale, CharOf(3) >> >>

\* characters that are no tag: "x", "0", "!", "_" and "K"
JunkChars == { 120, 48, 33, 95, 75 }

SettingTags ==
    LET T == SongTagCode
    IN  { T.scale, T.key, T.tempo, T.rhythm, T.beatCount, T.loopStart, T.loopEnd }

\* how a string is built: the kind of record under test, its tag and payload;
\* flag and at are, by kind,
\*   "setting": the size records come first (flag)
\*   "reverb":  the reverb record follows the startInstrument records (flag)
\*   "bars":    -
\*   "wave":    the tag is spectrum or harmonics on an instrument of that type
\*   "junk":    tag is a character that is no tag, after at good records
UrlChoices ==
    LET T == SongTagCode
        Choice(kind, tags, payloads, flags, ats) ==
            [kind : {kind}, version : Versions, tag : tags, payload : payloads,
             flag : flags, at : ats]
    IN  Choice("setting", SettingTags, SeqsUpTo(ProbeSymbols, MaxPayload), BOOLEAN, {0})
        \cup Choice("reverb", {T.reverb}, { << CharOf(r) >> : r \in 0 .. MaxReverb },
                    BOOLEAN, {0})
        \cup Choice("bars", {T.bars}, SeqsUpTo(ProbeSymbols \cup {CharOf(0)}, MaxPayload),
                    {TRUE}, {0})
        \cup Choice("wave", {T.spectrum, T.harmonics},
                    { [k \in 1 .. n |-> CharOf(42)] : n \in 0 .. 15 }, {TRUE}, {0})
        \cup Choice("junk", JunkChars, {<< >>}, {TRUE}, 0 .. MaxGood)

\* the startInstrument records of the channels of SizeRecords, from version 6
StartRecords(version, type, noise) ==
    IF version >= 6
    THEN << SongTagCode.startInstrument, CharOf(type) >>
         \o Flatten([k \in 1 .. noise |->
                << SongTagCode.startInstrument, CharOf(InstrumentType.noise) >>])
    ELSE << >>

\* the part of the string of a "junk" choice before the junk character
JunkPrefix(ch) ==
    << CharOf(ch.version) >> \o SizeRecords(ch.version, 2, 1)
    \o StartRecords(ch.version, InstrumentType.chip, 1)
    \o Flatten(SubSeq(GoodRecords, 1, ch.at))

UrlOf(ch) ==
    LET version == << CharOf(ch.version) >>
        sizes == SizeRecords(ch.version, 2, 1)
        starts == StartRecords(ch.version, InstrumentType.chip, 1)
        record == << ch.tag >> \o ch.payload
    IN  CASE ch.kind = "setting" ->
                version \o (IF ch.flag THEN sizes \o starts ELSE << >>) \o record
          [] ch.kind = "reverb" ->
                version \o sizes \o
                (IF ch.flag THEN starts \o record ELSE record \o starts)
          [] ch.kind = "bars" -> version \o sizes \o starts \o record
          [] ch.kind = "wave" ->
                version \o SizeRecords(ch.version, 2, 0) \o
                StartRecords(ch.version,
                             IF ch.tag = SongTagCode.spectrum
                             THEN InstrumentType.spectrum ELSE InstrumentType.harmonics, 0)
                \o record
          [] ch.kind = "junk" ->
                JunkPrefix(ch) \o record
                \o Flatten(SubSeq(GoodRecords, ch.at + 1, Len(GoodRecords)))

\* toBase64String runs to its end on the song: every channel has the
\* instruments and patterns its loops dereference
CanEncode(song) ==
    \A c \in ChannelIndexes(song) :
        /\ c < Len(song.channels)
        /\ song.instrumentsPerChannel # NaN =>
              Len(song.channels[c + 1].instruments) >= song.instrumentsPerChannel
        /\ song.patternsPerChannel # NaN =>
              Len(song.channels[c + 1].patterns) >= song.patternsPerChannel

InitUrl ==
    /\ pc = "url"
    /\ choice \in UrlChoices
    /\ url = UrlOf(choice)
    /\ input = NaN /\ decoded = NaN /\ reurl = << >> /\ redecoded = NaN
    /\ writer = NewWriter /\ reader = NoReader /\ ltIn = NaN /\ ltOut = NaN
    /\ PlaybackIdle

\* reurl = song.toBase64String() on the song that was decoded
Reencode ==
    /\ pc = "decoded"
    /\ decoded.error.kind = "none"
    /\ IF CanEncode(decoded.song)
       THEN reurl' = toBase64String(decoded.song) /\ pc' = "reurl"
       ELSE reurl' = reurl /\ pc' = "encode threw"
    /\ UNCHANGED << input, url, decoded, redecoded, choice, bitio, playback >>

\* new Song().fromBase64String(reurl)
Redecode ==
    /\ pc = "reurl"
    /\ redecoded' = fromBase64String(FreshSong, reurl)
    /\ pc' = "redecoded"
    /\ UNCHANGED << input, url, decoded, reurl, choice, bitio, playback >>

NextUrl == Decode \/ Reencode \/ Redecode

SpecUrl == InitUrl /\ [][NextUrl]_vars

\* C3: a string of version 2..9 that decodes without a fatal error, encoded
\* again and decoded again, gives the song of the first decode (compared in
\* the fields the writer keeps).
RedecodeSameSong ==
    /\ pc # "encode threw"
    /\ pc = "redecoded" =>
          /\ redecoded.error.kind = "none"
          /\ SongView(redecoded.song) = SongView(WrittenSong(decoded.song))

\* C5: a character at a tag position that is no tag code ends the decode with
\* an error naming the character and its index, and the song is as the records
\* before it left it.
UnknownTagThrows ==
    pc = "decoded" /\ choice.kind = "junk" =>
        LET before == fromBase64String(FreshSong, JunkPrefix(choice))
        IN  /\ decoded.error = [kind |-> "unknown", char |-> choice.tag,
                                index |-> Len(JunkPrefix(choice))]
            /\ decoded.song = before.song

\* a junk character between good records has been met
UnknownTagThrowsWitness ==
    /\ pc = "decoded" /\ choice.kind = "junk"
    /\ choice.at > 0 /\ choice.at < Len(GoodRecords)
    /\ decoded.error.kind = "unknown"
    /\ decoded.song.scale = Base64At(GoodRecords[1], 1)
    /\ fromBase64String(FreshSong, JunkPrefix(choice)).error.kind = "none"

\* the symbols the payload of the bars or wave record under test needs
NeededChars(ch) ==
    CASE ch.tag = SongTagCode.spectrum ->
            (Config.spectrumControlPoints * Config.spectrumControlPointBits + 5) \div 6
      [] ch.tag = SongTagCode.harmonics ->
            (Config.harmonicsControlPoints * Config.harmonicsControlPointBits + 5) \div 6
      [] ch.tag = SongTagCode.bars ->
            IF ch.version >= 6 THEN (2 * 2 * NeededBits(2 + 1) + 5) \div 6
            ELSE IF ch.version = 5 THEN (4 * 1 * NeededBits(2 + 1) + 5) \div 6
            ELSE (4 * 1 * NeededBits(2) + 5) \div 6

\* C6: a bars, spectrum or harmonics record whose payload is shorter than its
\* bits need ends the decode with a fatal error.
ShortPayloadThrows ==
    /\ pc = "decoded"
    /\ choice.kind \in {"bars", "wave"}
    /\ choice.version >= (IF choice.kind = "bars" THEN 3 ELSE 6)
    /\ Len(choice.payload) < NeededChars(choice)
    => decoded.error.kind # "none"

\* the song-level fields are within their ranges
SongFieldsInRange(song) ==
    /\ InRange(0, Config.scalesLength - 1, song.scale)
    /\ InRange(0, Config.keysLength - 1, song.key)
    /\ InRange(Config.tempoMin, Config.tempoMax, song.tempo)
    /\ InRange(0, Len(Config.rhythmStepsPerBeat) - 1, song.rhythm)
    /\ InRange(Config.beatsPerBarMin, Config.beatsPerBarMax, song.beatsPerBar)
    /\ InRange(0, song.barCount - 1, song.loopStart)
    /\ InRange(1, song.barCount - song.loopStart, song.loopLength)

\* C7: after a decode without a fatal error scale, key, tempo, rhythm,
\* beatsPerBar, loopStart and loopLength are within their ranges.
DecodedFieldsInRange ==
    pc = "decoded" /\ decoded.error.kind = "none" => SongFieldsInRange(decoded.song)

\* C8: after a decode every bar of every channel is 0 or a pattern number up to
\* patternsPerChannel.
DecodedBarsInRange ==
    pc = "decoded" /\ decoded.error.kind = "none" =>
        \A c \in 1 .. Len(decoded.song.channels) :
            \A b \in 1 .. Len(decoded.song.channels[c].bars) :
                InRange(0, decoded.song.patternsPerChannel,
                        decoded.song.channels[c].bars[b])

\* C10: after a string of a version before 7 with a song reverb r > 0, every
\* instrument of a pitch channel has the reverb effect and reverb r, and no
\* instrument of a noise channel has the reverb effect.
LegacyReverbOnPitchInstruments ==
    /\ pc = "decoded" /\ decoded.error.kind = "none"
    /\ choice.kind = "reverb" /\ choice.version < 7
    /\ At(base64CharCodeToInt, choice.payload[1]) > 0
    => \A c \in 1 .. Len(decoded.song.channels) :
          \A i \in 1 .. Len(decoded.song.channels[c].instruments) :
             LET instrument == decoded.song.channels[c].instruments[i]
             IN  IF getChannelIsNoise(decoded.song, c - 1)
                 THEN ~effectsInclude(instrument.effects, EffectType.reverb)
                 ELSE /\ effectsInclude(instrument.effects, EffectType.reverb)
                      /\ instrument.reverb = At(base64CharCodeToInt, choice.payload[1])

----------------------------------------------------------------------------
(* Strings with a patterns record: any short payload, and the payload the   *)
(* writer makes of a few notes with one symbol of it replaced.              *)

MaxPatternChars == 3

\* symbols whose bits start a note, a chord, a rest and a reused shape
PatternSymbols == { CharOf(40), CharOf(44), CharOf(21), CharOf(63) }

\* the song of the size records of version 9 with noteCount notes in the
\* pattern of each channel
NotedSong(noteCount) ==
    LET sized == fromBase64String(FreshSong,
                    << CharOf(9) >> \o SizeRecords(9, 1, 1)
                    \o StartRecords(9, InstrumentType.chip, 1)).song
    IN  [sized EXCEPT !.channels =
            [c \in 1 .. Len(@) |->
                [@[c] EXCEPT !.patterns =
                    << [instrument |-> 0,
                        notes |-> [n \in 1 .. noteCount |-> NoteAt(n - 1, c > 1, 1)]] >>]]]

\* the payload toBase64String writes in the patterns record of the song
WrittenPatterns(song) == encodeBase64(PatternBits(song))

\* "patterns": the payload of the patterns record; with flag the record
\* declares two symbols more than the payload has
PatternChoices ==
    LET Changed(written) == { [written EXCEPT ![k] = s] :
                                k \in 1 .. Len(written), s \in PatternSymbols }
                            \cup {written}
    IN  [kind : {"patterns"}, version : Versions, tag : {SongTagCode.patterns},
         payload : SeqsUpTo(PatternSymbols, MaxPatternChars)
                   \cup Changed(WrittenPatterns(NotedSong(MaxNotes + 1))),
         flag : BOOLEAN, at : {0}]

PatternUrlOf(ch) ==
    LET length == Len(ch.payload) + (IF ch.flag THEN 2 ELSE 0)
    IN  << CharOf(ch.version) >> \o SizeRecords(ch.version, 1, 1)
        \o StartRecords(ch.version, InstrumentType.chip, 1)
        \o (IF ch.version < 3
            THEN << ch.tag, CharOf(0), CharOf(0), CharOf(length \div 64),
                    CharOf(length % 64) >>
            ELSE << ch.tag, CharOf(1), CharOf(length) >>)
        \o ch.payload

InitPatterns ==
    /\ pc = "url"
    /\ choice \in PatternChoices
    /\ url = PatternUrlOf(choice)
    /\ input = NaN /\ decoded = NaN /\ reurl = << >> /\ redecoded = NaN
    /\ writer = NewWriter /\ reader = NoReader /\ ltIn = NaN /\ ltOut = NaN
    /\ PlaybackIdle

SpecPatterns == InitPatterns /\ [][Decode]_vars

\* the Note invariants
NoteOk(note) ==
    LET last == Len(note.pins)
    IN  /\ last >= 1
        /\ note.pins[1].time = 0 /\ note.pins[1].interval = 0
        /\ note.pins[last].time = note.end - note.start
        /\ \A k \in 1 .. last - 1 : note.pins[k].time < note.pins[k + 1].time
        /\ Len(note.pitches) <= Config.maxChordSize
        /\ note.end > note.start

----------------------------------------------------------------------------
(* The records of a written string in another order *)

MaxWindow == 3

\* the orders of n records under test: two records exchanged, and the records
\* of a window of MaxWindow records in any order; order[k] is the record that
\* comes k-th
Orders(n) ==
    LET Identity == [k \in 1 .. n |-> k]
        Swaps == { [Identity EXCEPT ![i] = j, ![j] = i] : i \in 1 .. n, j \in 1 .. n }
        Windows == { [k \in 1 .. n |-> IF k \in from .. from + MaxWindow - 1
                                       THEN from - 1 + f[k - from + 1] ELSE k] :
                        from \in 1 .. n - MaxWindow + 1,
                        f \in { g \in [1 .. MaxWindow -> 1 .. MaxWindow] :
                                  \A a, b \in 1 .. MaxWindow : a # b => g[a] # g[b] } }
    IN  Swaps \cup Windows

\* the groups of records of the song's string: the song-level records after
\* channelCount (records 2 to 12: scale ... channelOctave), and the records of
\* each instrument after its startInstrument record; 0 for the records that
\* belong to no group
GroupOf(records, k) ==
    LET starts == { j \in 1 .. k : records[j][1] = SongTagCode.startInstrument }
    IN  IF k = 1 \/ records[k][1] \in {SongTagCode.startInstrument, SongTagCode.bars,
                                      SongTagCode.patterns}
        THEN 0
        ELSE 1 + Cardinality(starts)

\* the order leaves every record within its group, and in its place if it has none
WithinGroups(records, order) ==
    \A k \in 1 .. Len(records) :
        /\ GroupOf(records, order[k]) = GroupOf(records, k)
        /\ GroupOf(records, k) = 0 => order[k] = k

InitPerm ==
    /\ pc = "song"
    /\ \E type \in 0 .. InstrumentType.length - 1, m \in 1 .. Len(EffectMasks) :
            input = SongAt(type, 0, EffectMasks[m], 1)
    /\ url = << >> /\ decoded = NaN
    /\ reurl = << >> /\ redecoded = NaN
    /\ choice = [records |-> toBase64Records(input), order |-> << >>]
    /\ writer = NewWriter /\ reader = NoReader /\ ltIn = NaN /\ ltOut = NaN
    /\ PlaybackIdle

\* the string of the song with its records in another order
Permute ==
    /\ pc = "decoded"
    /\ \E order \in Orders(Len(choice.records)) :
          /\ choice' = [choice EXCEPT !.order = order]
          /\ reurl' = << CharOf(9) >>
                      \o Flatten([k \in 1 .. Len(order) |-> choice.records[order[k]]])
    /\ pc' = "reurl"
    /\ UNCHANGED << input, url, decoded, redecoded, bitio, playback >>

NextPerm == Encode \/ Decode \/ Permute \/ Redecode

SpecPerm == InitPerm /\ [][NextPerm]_vars

\* C4 as stated: the records of a written string in any order decode to the
\* song of the written order.
AnyOrderSameSong ==
    pc = "redecoded" =>
        /\ redecoded.error.kind = "none"
        /\ redecoded.song = decoded.song

\* C4: the song-level records after the channelCount record in any order among
\* themselves, and the records of an instrument after its startInstrument
\* record in any order among themselves, decode to the song of the written order.
OrderWithinGroupsSameSong ==
    pc = "redecoded" /\ WithinGroups(choice.records, choice.order) =>
        /\ redecoded.error.kind = "none"
        /\ redecoded.song = decoded.song

\* records of a group have been moved, and the string decoded
OrderWithinGroupsSameSongWitness ==
    /\ pc = "redecoded"
    /\ WithinGroups(choice.records, choice.order)
    /\ reurl # url
    /\ \E k \in 1 .. Len(choice.order) :
          choice.order[k] # k /\ GroupOf(choice.records, k) > 1
    /\ redecoded.song = decoded.song

----------------------------------------------------------------------------
(***************************************************************************)
(* FilterSettings.convertLegacySettings on a filter that already holds     *)
(* points: addPoint builds what the filter held before, then the legacy    *)
(* cutoff, resonance, envelope and instrument type are converted.          *)
(***************************************************************************)
MaxPriorPoints == 2

InitLegacy ==
    /\ pc = "filter"
    /\ settings = NewFilter /\ legacyArgs = NaN /\ synth = NaN /\ calls = 0
    /\ delay = NaN /\ audio = NaN /\ flash = NaN
    /\ buffer = NaN /\ walk = NaN /\ tour = NaN
    /\ input = NaN /\ url = << >> /\ decoded = NaN
    /\ reurl = << >> /\ redecoded = NaN /\ choice = << >>
    /\ writer = NewWriter /\ reader = NoReader /\ ltIn = NaN /\ ltOut = NaN

\* filter.addPoint(type, freqSetting, gainSetting) before the conversion
AddPoint ==
    /\ pc = "filter"
    /\ settings.controlPointCount < MaxPriorPoints
    /\ \E type \in {FilterType.lowPass, FilterType.highPass, FilterType.peak} :
           settings' = addPoint(settings, type, 10 + type, Config.filterGainCenter)
    /\ UNCHANGED << pc, legacyArgs, synth, calls, delay, audio, flash, buffer, walk, tour, codec, bitio >>

\* filter.convertLegacySettings(cutoff, resonance, Config.envelopes[envelope], type)
ConvertLegacy ==
    /\ pc = "filter"
    /\ \E cutoff \in 0 .. 10, resonance \in 0 .. 7,
          envelope \in 0 .. Config.envelopesLength - 1,
          type \in {InstrumentType.chip, InstrumentType.fm} :
           /\ legacyArgs' = [cutoff |-> cutoff, resonance |-> resonance,
                          envelope |-> envelope, type |-> type]
           /\ settings' = convertLegacySettings(settings, cutoff, resonance, envelope, type)
    /\ pc' = "converted"
    /\ UNCHANGED << synth, calls, delay, audio, flash, buffer, walk, tour, codec, bitio >>

NextLegacy == AddPoint \/ ConvertLegacy

SpecLegacy == InitLegacy /\ [][NextLegacy]_vars

\* the legacy envelope is one of the decaying types
LegacyEnvelopeDecays ==
    Config.envelopeTypes[legacyArgs.envelope + 1] \in {"flare", "twang", "decay", "custom"}

\* C11: after convertLegacySettings, for every cutoff in 0..10 and resonance in
\* 0..7 and whatever points the filter held, controlPointCount is 0 or 1; it is
\* 0 exactly when the envelope does not decay, the resonance is at most 1 and the
\* cutoff is 10; otherwise the one point is a low-pass point
LegacyAtMostOneLowPass ==
    pc = "converted" =>
        /\ settings.controlPointCount \in {0, 1}
        /\ settings.controlPointCount = 0
               <=> (~LegacyEnvelopeDecays /\ legacyArgs.resonance <= 1 /\ legacyArgs.cutoff = 10)
        /\ settings.controlPointCount = 1
               => settings.controlPoints[1].type = FilterType.lowPass

\* settings that held two points, the second a peak point, converted to one
\* low-pass point
LegacyAtMostOneLowPassWitness ==
    /\ pc = "converted"
    /\ Len(settings.controlPoints) = 2
    /\ settings.controlPointCount = 1
    /\ settings.controlPoints[2].type = FilterType.peak
    /\ legacyArgs.cutoff = 10 /\ legacyArgs.resonance = 1 /\ LegacyEnvelopeDecays

----------------------------------------------------------------------------
(***************************************************************************)
(* Synth.synthesize: the tone queues and the instrument states.  A run is  *)
(* one turn of the loop  while (bufferIndex < outputBufferLength) ; a call *)
(* whose buffer ends within the current tick is one run, and a longer call *)
(* is the same runs one after another.  Samples are kept by what the code  *)
(* tests of them: 0 for a sample that is exactly zero, 1 for one that need *)
(* not be.  Times are whole samples, samplesPerTick of them in a tick.     *)
(***************************************************************************)
SamplesPerTick == 3
ChorusDelayBufferSize == 2
ReverbDelayBufferSize == 8

\* the offsets of the four reverb taps in the delay line, 0, 3041, 6426 and
\* 10907 of 16384 in the source, here of ReverbDelayBufferSize
ReverbOffsets == << 0, 1, 3, 5 >>

\* Config.maximumTonesPerChannel
MaximumTonesPerChannel == Config.maxChordSize * 2

\* Config.transitions: the fields synthesize reads, in the order of the indexes
ConfigTransitions ==
    << [name |-> "seamless", isSeamless |-> TRUE, slides |-> FALSE,
        releases |-> FALSE, releaseTicks |-> 1],
       [name |-> "hard", isSeamless |-> FALSE, slides |-> FALSE,
        releases |-> FALSE, releaseTicks |-> 3],
       [name |-> "soft", isSeamless |-> FALSE, slides |-> FALSE,
        releases |-> FALSE, releaseTicks |-> 3],
       [name |-> "slide", isSeamless |-> TRUE, slides |-> TRUE,
        releases |-> FALSE, releaseTicks |-> 3],
       [name |-> "cross fade", isSeamless |-> FALSE, slides |-> FALSE,
        releases |-> TRUE, releaseTicks |-> 6],
       [name |-> "hard fade", isSeamless |-> FALSE, slides |-> FALSE,
        releases |-> TRUE, releaseTicks |-> 48],
       [name |-> "medium fade", isSeamless |-> FALSE, slides |-> FALSE,
        releases |-> TRUE, releaseTicks |-> 72],
       [name |-> "soft fade", isSeamless |-> FALSE, slides |-> FALSE,
        releases |-> TRUE, releaseTicks |-> 96] >>

\* Config.chords: the fields synthesize reads, in the order of the indexes
ConfigChords ==
    << [name |-> "harmony", singleTone |-> FALSE, arpeggiates |-> FALSE, strumParts |-> 0],
       [name |-> "strum", singleTone |-> FALSE, arpeggiates |-> FALSE, strumParts |-> 1],
       [name |-> "arpeggio", singleTone |-> TRUE, arpeggiates |-> TRUE, strumParts |-> 0],
       [name |-> "custom interval", singleTone |-> TRUE, arpeggiates |-> FALSE,
        strumParts |-> 0] >>

\* Math.min(a, b)
MinOf(a, b) == IF a < b THEN a ELSE b

\* Instrument.getTransition(), Instrument.getChord()
getTransition(instrument) == ConfigTransitions[instrument.transition + 1]
getChord(instrument) == ConfigChords[instrument.chord + 1]

\* null where a pattern, a note or a delay line is expected
NoPattern == [instrument |-> NaN, notes |-> << >>]

NoNote == [start |-> NaN, end |-> NaN, pitches |-> << >>]

NoLine == << >>

\* Song.getPattern(channel, bar): NoPattern for null
getPattern(song, channel, bar) ==
    IF bar < 0 \/ bar >= song.barCount THEN NoPattern
    ELSE LET patternIndex == song.channels[channel + 1].bars[bar + 1]
         IN  IF patternIndex = 0 THEN NoPattern
             ELSE song.channels[channel + 1].patterns[patternIndex]

\* Song.getPatternInstrument(channel, bar)
getPatternInstrument(song, channel, bar) ==
    IF getPattern(song, channel, bar) = NoPattern THEN 0
    ELSE getPattern(song, channel, bar).instrument

\* new Tone(): the fields the tone queues are managed by; instrumentIndex is
\* undefined until the tone is first used.  id tells the Tone objects apart:
\* the n-th object made has id n
NewTone ==
    [id |-> 0, instrumentIndex |-> NaN, pitchCount |-> 0, chordSize |-> 0, note |-> NoNote,
     prevNote |-> NoNote, nextNote |-> NoNote, noteStart |-> 0, noteEnd |-> 0, active |-> FALSE,
     isOnLastTick |-> FALSE, ticksSinceReleased |-> 0,
     \* history: the tick ends the tone has seen in its released queue
     heldTicks |-> 0]

\* new InstrumentState()
NewInstrumentState ==
    [awake |-> FALSE, computed |-> FALSE, tonesAddedInThisTick |-> FALSE,
     flushingDelayLines |-> FALSE, deactivateAfterThisTick |-> FALSE,
     attentuationProgress |-> 0, flushedSamples |-> 0, releasedTones |-> << >>,
     volume |-> 1, delayInputMult |-> 1, idleTicks |-> 0,
     chorusDelayLineL |-> NoLine, chorusDelayLineR |-> NoLine, chorusDelayPos |-> 0,
     reverbDelayLine |-> NoLine, reverbDelayPos |-> 0]

\* new ChannelState()
NewChannelState == [instruments |-> << >>, activeTones |-> << >>]

\* Synth.freeTone(tone)
freeTone(s, tone) == [s EXCEPT !.tonePool = Append(@, tone)]

\* Synth.newTone(): the synth with the tone taken, and the tone
newTone(s) ==
    IF Len(s.tonePool) > 0
    THEN [s |-> [s EXCEPT !.tonePool = SubSeq(@, 1, Len(@) - 1), !.taken = @ + 1],
          tone |-> [s.tonePool[Len(s.tonePool)] EXCEPT !.active = FALSE]]
    ELSE [s |-> [s EXCEPT !.taken = @ + 1, !.made = @ + 1],
          tone |-> [NewTone EXCEPT !.id = s.made + 1]]

\* Synth.releaseTone(instrumentState, tone), instrumentState that of the
\* channel and instrument given: releasedTones.pushFront(tone)
releaseTone(s, channelIndex, instrumentIndex, tone) ==
    [s EXCEPT !.channels[channelIndex + 1].instruments[instrumentIndex + 1].releasedTones =
                  << [tone EXCEPT !.heldTicks = 0] >> \o @]

\* deque.remove(index)
RemoveAt(deque, index) ==
    SubSeq(deque, 1, index) \o SubSeq(deque, index + 2, Len(deque))

\* Synth.freeReleasedTone(instrumentState, toneIndex)
freeReleasedTone(s, channelIndex, instrumentIndex, toneIndex) ==
    LET released == s.channels[channelIndex + 1].instruments[instrumentIndex + 1].releasedTones
    IN  [freeTone(s, released[toneIndex + 1])
            EXCEPT !.channels[channelIndex + 1].instruments[instrumentIndex + 1].releasedTones =
                       RemoveAt(released, toneIndex)]

\* Synth.releaseOrFreeUnusedTones(toneList, maxCount, song, channelIndex) on the
\* channel's active tones
RECURSIVE releaseOrFreeUnusedTones(_, _, _)
releaseOrFreeUnusedTones(s, maxCount, channelIndex) ==
    LET toneList == s.channels[channelIndex + 1].activeTones
        tone == toneList[Len(toneList)]
        popped == [s EXCEPT !.channels[channelIndex + 1].activeTones =
                                SubSeq(toneList, 1, Len(toneList) - 1)]
    IN  IF Len(toneList) <= maxCount THEN s
        ELSE releaseOrFreeUnusedTones(
                 IF /\ tone.instrumentIndex < s.song.instrumentsPerChannel
                    /\ getTransition(s.song.channels[channelIndex + 1]
                                        .instruments[tone.instrumentIndex + 1]).releases
                 THEN releaseTone(popped, channelIndex, tone.instrumentIndex, tone)
                 ELSE freeTone(popped, tone),
                 maxCount, channelIndex)

\* the tone at index i of the channel's active tones, taken from newTone() and
\* pushed when the list is no longer than i: the synth and the tone
ActiveToneAt(s, channelIndex, i) ==
    IF Len(s.channels[channelIndex + 1].activeTones) <= i
    THEN LET made == newTone(s)
         IN  [s |-> [made.s EXCEPT !.channels[channelIndex + 1].activeTones =
                                       Append(@, made.tone)],
              tone |-> made.tone]
    ELSE [s |-> s, tone |-> s.channels[channelIndex + 1].activeTones[i + 1]]

\* Synth.syncTones(channelIndex, instrumentIndex, toneList, song, pitches, note,
\* prevNote, nextNote, currentPart) on the channel's active tones
syncTones(s, channelIndex, instrumentIndex, note, prevNote, nextNote, currentPart) ==
    LET instrument == s.song.channels[channelIndex + 1].instruments[instrumentIndex + 1]
        chord == getChord(instrument)
        transition == getTransition(instrument)
        Single(at) ==
            [at.s EXCEPT !.channels[channelIndex + 1].activeTones[1] =
                [at.tone EXCEPT !.pitchCount = Len(note.pitches), !.chordSize = 1,
                                !.instrumentIndex = instrumentIndex, !.note = note,
                                !.noteStart = note.start, !.noteEnd = note.end,
                                !.prevNote = prevNote, !.nextNote = nextNote]]
        RECURSIVE Tones(_, _)
        \* the loop over the pitches from i on: the synth and toneCount
        Tones(st, i) ==
            IF i >= Len(note.pitches) THEN [s |-> st, toneCount |-> i]
            ELSE LET strumOffsetParts == i * chord.strumParts
                     prevForTone == IF prevNote # NoNote /\ Len(prevNote.pitches) > i
                                    THEN prevNote ELSE NoNote
                     nextForTone == IF nextNote # NoNote /\ Len(nextNote.pitches) > i
                                    THEN nextNote ELSE NoNote
                     late == note.start + strumOffsetParts > currentPart
                     takesOver == /\ Len(st.channels[channelIndex + 1].activeTones) > i
                                  /\ transition.isSeamless /\ prevForTone # NoNote
                     noteForThisTone == IF late THEN prevForTone ELSE note
                     prevNoteForThisTone == IF late THEN NoNote ELSE prevForTone
                     nextNoteForThisTone == IF late THEN note ELSE nextForTone
                     noteEnd == IF transition.isSeamless /\ nextNoteForThisTone # NoNote
                                THEN MinOf(Config.partsPerBeat * st.song.beatsPerBar,
                                         noteForThisTone.end + strumOffsetParts)
                                ELSE noteForThisTone.end
                     Set(at) ==
                         [at.s EXCEPT !.channels[channelIndex + 1].activeTones[i + 1] =
                             [at.tone EXCEPT
                                 !.pitchCount = 1,
                                 !.chordSize = Len(noteForThisTone.pitches),
                                 !.instrumentIndex = instrumentIndex,
                                 !.note = noteForThisTone,
                                 !.noteStart = noteForThisTone.start + strumOffsetParts,
                                 !.noteEnd = noteEnd,
                                 !.prevNote = prevNoteForThisTone,
                                 !.nextNote = nextNoteForThisTone]]
                 IN  IF late /\ ~takesOver THEN [s |-> st, toneCount |-> i]
                     ELSE Tones(Set(ActiveToneAt(st, channelIndex, i)), i + 1)
        Synced(r) == releaseOrFreeUnusedTones(r.s, r.toneCount, channelIndex)
    IN  IF chord.singleTone
        THEN Synced([s |-> Single(ActiveToneAt(s, channelIndex, 0)), toneCount |-> 1])
        ELSE Synced(Tones(s, 0))

\* the notes determineCurrentActiveTones finds in pattern.notes at the time:
\* the last that ended, the one sounding, the first to come
NotesAt(notes, time) ==
    LET ended == { i \in 1 .. Len(notes) : notes[i].end <= time }
        now == { i \in 1 .. Len(notes) : notes[i].start <= time /\ notes[i].end > time }
        coming == { i \in 1 .. Len(notes) : notes[i].end > time /\ notes[i].start > time }
        first == IF coming = {} THEN Len(notes) + 1
                 ELSE CHOOSE i \in coming : \A j \in coming : i <= j
        Last(set) == CHOOSE i \in set : \A j \in set : j <= i
        before == { i \in ended : i < first }
        sounding == { i \in now : i < first }
    IN  [prevNote |-> IF before = {} THEN NoNote ELSE notes[Last(before)],
         note |-> IF sounding = {} THEN NoNote ELSE notes[Last(sounding)],
         nextNote |-> IF coming = {} THEN NoNote ELSE notes[first]]

determineCurrentActiveTonesKeepsTones(s, channelIndex, playSong) ==
    LET channel == s.song.channels[channelIndex + 1]
        instrumentIndex == getPatternInstrument(s.song, channelIndex, s.bar)
        pattern == getPattern(s.song, channelIndex, s.bar)
        time == s.part + s.beat * Config.partsPerBeat
        found == IF /\ playSong /\ pattern # NoPattern /\ ~channel.muted
                    /\ instrumentIndex < s.song.instrumentsPerChannel
                 THEN NotesAt(pattern.notes, time)
                 ELSE [prevNote |-> NoNote, note |-> NoNote, nextNote |-> NoNote]
        note == found.note
        prevNote == IF found.prevNote # NoNote /\ found.prevNote.end # note.start
                    THEN NoNote ELSE found.prevNote
        nextNote == IF found.nextNote # NoNote /\ found.nextNote.start # note.end
                    THEN NoNote ELSE found.nextNote
    IN  IF note # NoNote
        THEN syncTones(s, channelIndex, instrumentIndex, note, prevNote, nextNote, time)
        ELSE s

\* Synth.determineCurrentActiveTones(song, channelIndex, playSong)
determineCurrentActiveTones(s, channelIndex, playSong) ==
    LET channel == s.song.channels[channelIndex + 1]
        instrumentIndex == getPatternInstrument(s.song, channelIndex, s.bar)
        pattern == getPattern(s.song, channelIndex, s.bar)
        time == s.part + s.beat * Config.partsPerBeat
        found == IF /\ playSong /\ pattern # NoPattern /\ ~channel.muted
                    /\ instrumentIndex < s.song.instrumentsPerChannel
                 THEN NotesAt(pattern.notes, time)
                 ELSE [prevNote |-> NoNote, note |-> NoNote, nextNote |-> NoNote]
        note == found.note
        prevNote == IF found.prevNote # NoNote /\ found.prevNote.end # note.start
                    THEN NoNote ELSE found.prevNote
        nextNote == IF found.nextNote # NoNote /\ found.nextNote.start # note.end
                    THEN NoNote ELSE found.nextNote
    IN  IF note # NoNote
        THEN syncTones(s, channelIndex, instrumentIndex, note, prevNote, nextNote, time)
        ELSE releaseOrFreeUnusedTones(s, 0, channelIndex)

\* the tone at index i of the live input tones replaced by tone
SetLiveTone(s, i, tone) == [s EXCEPT !.liveInputTones[i + 1] = tone]

\* Synth.determineLiveInputTones(song)
determineLiveInputTones(s) ==
    LET pitches == s.liveInputPitches
        channelIndex == s.liveInputChannel
        instrumentIndex == getPatternInstrument(s.song, channelIndex, s.bar)
        instrument == s.song.channels[channelIndex + 1].instruments[instrumentIndex + 1]
        restarts == ~getTransition(instrument).isSeamless /\ s.liveInputStarted
        Pushed(made) == [s |-> [made.s EXCEPT !.liveInputTones = Append(@, made.tone)],
                         tone |-> made.tone]
        \* the one tone of an arpeggio: the synth, the tone and its index
        Arpeggio ==
            IF Len(s.liveInputTones) = 0
            THEN Pushed(newTone(s))
            ELSE IF restarts
            THEN Pushed(newTone([releaseTone(s, channelIndex, instrumentIndex,
                                             s.liveInputTones[1])
                                    EXCEPT !.liveInputTones = SubSeq(@, 2, Len(@))]))
            ELSE [s |-> s, tone |-> s.liveInputTones[1]]
        Held(at, index) ==
            [k \in 1 .. Len(at.s.liveInputTones) |->
                IF k = index + 1
                THEN [at.tone EXCEPT !.pitchCount = Len(pitches), !.chordSize = 1,
                                     !.instrumentIndex = instrumentIndex, !.note = NoNote,
                                     !.prevNote = NoNote, !.nextNote = NoNote]
                ELSE at.s.liveInputTones[k]]
        RECURSIVE Tones(_, _)
        \* the loop over the pitches from i on
        Tones(st, i) ==
            IF i >= Len(pitches) THEN st
            ELSE LET at == IF Len(st.liveInputTones) <= i
                           THEN Pushed(newTone(st))
                           ELSE IF restarts
                           THEN LET made == newTone(releaseTone(st, channelIndex,
                                                instrumentIndex, st.liveInputTones[i + 1]))
                                IN  [s |-> SetLiveTone(made.s, i, made.tone),
                                     tone |-> made.tone]
                           ELSE [s |-> st, tone |-> st.liveInputTones[i + 1]]
                 IN  Tones(SetLiveTone(at.s, i,
                               [at.tone EXCEPT !.pitchCount = 1,
                                               !.chordSize = Len(pitches),
                                               !.instrumentIndex = instrumentIndex,
                                               !.note = NoNote, !.prevNote = NoNote,
                                               !.nextNote = NoNote]),
                           i + 1)
        \* the arpeggio's tone is the last of the list when it was pushed, the
        \* first when it was kept
        ArpeggioSet(at) ==
            [at.s EXCEPT !.liveInputTones =
                Held(at, IF Len(s.liveInputTones) = 0 \/ restarts
                         THEN Len(at.s.liveInputTones) - 1 ELSE 0)]
        RECURSIVE Surplus(_, _)
        \* while (toneList.count() > toneCount) releaseTone(popBack())
        Surplus(st, toneCount) ==
            IF Len(st.liveInputTones) <= toneCount THEN st
            ELSE Surplus([releaseTone(st, channelIndex, instrumentIndex,
                                      st.liveInputTones[Len(st.liveInputTones)])
                             EXCEPT !.liveInputTones = SubSeq(@, 1, Len(@) - 1)],
                         toneCount)
        Ended(st) == [st EXCEPT !.liveInputStarted = FALSE]
    IN  IF s.liveInputDuration > 0
        THEN IF getChord(instrument).arpeggiates
             THEN Ended(Surplus(ArpeggioSet(Arpeggio), 1))
             ELSE Ended(Surplus(Tones(s, 0), Len(pitches)))
        ELSE Ended(Surplus(s, 0))

\* Synth.computeTone(synth, song, channelIndex, samplesPerTick, runLength, tone,
\* released, shouldFadeOutFast): the tone with the fields the queues are
\* managed by
computeTone(s, channelIndex, tone, released, shouldFadeOutFast) ==
    LET instrument == s.song.channels[channelIndex + 1].instruments[tone.instrumentIndex + 1]
        transition == getTransition(instrument)
        partsPerBar == Config.partsPerBeat * s.song.beatsPerBar
        time == s.part + s.beat * Config.partsPerBeat
        tickTimeEnd == time * Config.ticksPerPart + s.tick + 1
        noteEndTick == tone.noteEnd * Config.ticksPerPart
    IN  IF released
        THEN [tone EXCEPT !.active = TRUE,
                          !.isOnLastTick = shouldFadeOutFast
                              \/ tone.ticksSinceReleased + 1 >= transition.releaseTicks]
        ELSE IF tone.note = NoNote
        THEN [tone EXCEPT !.active = TRUE, !.ticksSinceReleased = 0,
                          !.isOnLastTick = shouldFadeOutFast]
        ELSE [tone EXCEPT
                 !.active = TRUE, !.ticksSinceReleased = 0,
                 !.isOnLastTick =
                     \/ shouldFadeOutFast
                     \/ /\ ~(transition.isSeamless /\ ~transition.slides
                               /\ tone.note.end = partsPerBar)
                        /\ ~(transition.isSeamless /\ tone.nextNote # NoNote)
                        /\ ~transition.releases
                        /\ transition.releaseTicks > 0
                        /\ tickTimeEnd >= noteEndTick]

\* effectsIncludeChorus(instrument.effects), effectsIncludeReverb(instrument.effects)
usesChorus(instrument) == effectsInclude(instrument.effects, EffectType.chorus)
usesReverb(instrument) == effectsInclude(instrument.effects, EffectType.reverb)

\* delayDuration / secondsInTick of InstrumentState.compute, in whole ticks:
\* Config.chorusMaxDelay for the chorus, and for the reverb the time
\* halfLife * halfLifeMult, none at reverb 0 and longer the stronger the reverb
ChorusDurationTicks == 1
ReverbDurationTicks(reverb) == 4 * reverb
DelayDurationTicks(instrument) ==
    (IF usesChorus(instrument) THEN ChorusDurationTicks ELSE 0)
    + (IF usesReverb(instrument) THEN ReverbDurationTicks(instrument.reverb) ELSE 0)

\* InstrumentState.allocateNecessaryBuffers(synth, instrument)
allocateNecessaryBuffers(state, instrument) ==
    [state EXCEPT
        !.chorusDelayLineL = IF usesChorus(instrument) /\ @ = NoLine
                             THEN [k \in 1 .. ChorusDelayBufferSize |-> 0] ELSE @,
        !.chorusDelayLineR = IF usesChorus(instrument) /\ @ = NoLine
                             THEN [k \in 1 .. ChorusDelayBufferSize |-> 0] ELSE @,
        !.reverbDelayLine = IF usesReverb(instrument) /\ @ = NoLine
                            THEN [k \in 1 .. ReverbDelayBufferSize |-> 0] ELSE @]

\* InstrumentState.compute(synth, instrument, samplesPerTick, runLength);
\* attentuationProgress is counted in ticks, 1.0 being DelayDurationTicks of
\* them; volume and delayInputMult are 0 when they are zero over the whole run
compute(state, instrument, tickSampleCountdown, runLength) ==
    LET allocated == [allocateNecessaryBuffers(state, instrument) EXCEPT !.computed = TRUE]
        tickIsEnding == runLength >= tickSampleCountdown
        progressAtEndOfTick == state.attentuationProgress + 1
        totalDelaySamples ==
            (IF usesChorus(instrument) THEN ChorusDelayBufferSize ELSE 0)
            + (IF usesReverb(instrument) THEN ReverbDelayBufferSize ELSE 0)
    IN  IF state.tonesAddedInThisTick
        THEN [allocated EXCEPT !.attentuationProgress = 0, !.flushedSamples = 0,
                               !.flushingDelayLines = FALSE,
                               !.volume = 1, !.delayInputMult = 1]
        ELSE IF ~state.flushingDelayLines
        THEN [allocated EXCEPT
                 !.volume = IF state.attentuationProgress = 0 THEN 1 ELSE 0,
                 !.delayInputMult = 1,
                 !.attentuationProgress = IF tickIsEnding THEN progressAtEndOfTick ELSE @,
                 !.flushingDelayLines =
                     tickIsEnding /\ progressAtEndOfTick >= DelayDurationTicks(instrument)]
        ELSE [allocated EXCEPT
                 !.volume = 0, !.delayInputMult = 0,
                 !.flushedSamples = @ + runLength,
                 !.deactivateAfterThisTick =
                     @ \/ state.flushedSamples + runLength >= totalDelaySamples]

\* InstrumentState.deactivate()
deactivate(state) ==
    [state EXCEPT !.awake = FALSE, !.flushingDelayLines = FALSE,
                  !.deactivateAfterThisTick = FALSE, !.attentuationProgress = 0,
                  !.flushedSamples = 0]

\* InstrumentState.resetAllEffects(): the delay lines were written if they are
\* there
resetAllEffects(state) ==
    [deactivate(state) EXCEPT
        !.chorusDelayLineL = IF @ = NoLine THEN @ ELSE [k \in 1 .. Len(@) |-> 0],
        !.chorusDelayLineR = IF @ = NoLine THEN @ ELSE [k \in 1 .. Len(@) |-> 0],
        !.reverbDelayLine = IF @ = NoLine THEN @ ELSE [k \in 1 .. Len(@) |-> 0]]

\* whether a sample of the delay line need not be zero
Sounds(delayLine) == delayLine # NoLine /\ \E k \in 1 .. Len(delayLine) : delayLine[k] # 0

\* index & mask, the length of the line a power of two
Masked(index, size) == index % size

\* the delay line after runLength samples were written from pos on, at each of
\* the offsets
WrittenLine(delayLine, pos, offsets, runLength, sample) ==
    [k \in 1 .. Len(delayLine) |->
        IF \E i \in 0 .. runLength - 1, o \in 1 .. Len(offsets) :
               k - 1 = Masked(pos + i + offsets[o], Len(delayLine))
        THEN sample ELSE delayLine[k]]

\* Synth.effectsSynth(synth, outputDataL, outputDataR, bufferIndex, runLength,
\* instrument, instrumentState): the instrument state, and whether the samples
\* added to the output need not be zero
effectsSynth(state, instrument, mono, runLength) ==
    LET sample == IF mono = 1 /\ state.volume = 1 THEN 1 ELSE 0
        chorused == IF usesChorus(instrument)
                       /\ (Sounds(state.chorusDelayLineL) \/ Sounds(state.chorusDelayLineR))
                    THEN 1 ELSE sample
        reverbed == IF usesReverb(instrument) /\ Sounds(state.reverbDelayLine)
                    THEN 1 ELSE chorused
        chorusIn == IF state.delayInputMult = 0 THEN 0 ELSE sample
        reverbIn == IF state.delayInputMult = 0 THEN 0 ELSE reverbed
    IN  [state |->
            [state EXCEPT
                !.chorusDelayLineL =
                    IF usesChorus(instrument)
                    THEN WrittenLine(@, state.chorusDelayPos, << 0 >>, runLength, chorusIn)
                    ELSE @,
                !.chorusDelayLineR =
                    IF usesChorus(instrument)
                    THEN WrittenLine(@, state.chorusDelayPos, << 0 >>, runLength, chorusIn)
                    ELSE @,
                !.chorusDelayPos =
                    IF usesChorus(instrument)
                    THEN Masked(@ + runLength, ChorusDelayBufferSize) ELSE @,
                !.reverbDelayLine =
                    IF usesReverb(instrument)
                    THEN WrittenLine(@, state.reverbDelayPos, ReverbOffsets, runLength,
                                     reverbIn)
                    ELSE @,
                !.reverbDelayPos =
                    IF usesReverb(instrument)
                    THEN Masked(@ + runLength, ReverbDelayBufferSize) ELSE @],
         output |-> reverbed]

\* the instrument state of the channel and instrument replaced by state
SetInstrumentState(s, channelIndex, instrumentIndex, state) ==
    [s EXCEPT !.channels[channelIndex + 1].instruments[instrumentIndex + 1] = state]

\* Synth.playTone(song, channelIndex, samplesPerTick, bufferIndex, runLength,
\* tone, released, shouldFadeOutFast): the synth and the tone; the synthesizer
\* adds the tone to tempMonoInstrumentSampleBuffer
playTone(s, channelIndex, runLength, tone, released, shouldFadeOutFast) ==
    LET instrument == s.song.channels[channelIndex + 1].instruments[tone.instrumentIndex + 1]
        state == s.channels[channelIndex + 1].instruments[tone.instrumentIndex + 1]
        woken == [state EXCEPT !.awake = TRUE, !.tonesAddedInThisTick = TRUE]
    IN  [s |-> [SetInstrumentState(s, channelIndex, tone.instrumentIndex,
                    IF woken.computed THEN woken
                    ELSE compute(woken, instrument, s.tickSampleCountdown, runLength))
                   EXCEPT !.mono = 1,
                          !.played = Append(@, [channelIndex |-> channelIndex,
                                                instrumentIndex |-> tone.instrumentIndex,
                                                released |-> released])],
         tone |-> computeTone(s, channelIndex, tone, released, shouldFadeOutFast)]

\* for (i < this.liveInputTones.count()) playTone(liveInputTones.get(i)), from i on
RECURSIVE PlayLiveInputTones(_, _, _, _)
PlayLiveInputTones(s, channelIndex, runLength, i) ==
    IF i >= Len(s.liveInputTones) THEN s
    ELSE LET p == playTone(s, channelIndex, runLength, s.liveInputTones[i + 1], FALSE, FALSE)
         IN  PlayLiveInputTones([p.s EXCEPT !.liveInputTones[i + 1] = p.tone],
                                channelIndex, runLength, i + 1)

\* for (i < channelState.activeTones.count()) playTone(activeTones.get(i)), from i on
RECURSIVE PlayActiveTones(_, _, _, _)
PlayActiveTones(s, channelIndex, runLength, i) ==
    IF i >= Len(s.channels[channelIndex + 1].activeTones) THEN s
    ELSE LET p == playTone(s, channelIndex, runLength,
                           s.channels[channelIndex + 1].activeTones[i + 1], FALSE, FALSE)
         IN  PlayActiveTones([p.s EXCEPT !.channels[channelIndex + 1].activeTones[i + 1] =
                                             p.tone],
                             channelIndex, runLength, i + 1)

\* the loop over instrumentState.releasedTones from i on, tonesPlayed tones of
\* the channel played before: the synth and tonesPlayedInThisChannel
RECURSIVE PlayReleasedTones(_, _, _, _, _, _)
PlayReleasedTones(s, channelIndex, instrumentIndex, runLength, tonesPlayed, i) ==
    LET released == s.channels[channelIndex + 1].instruments[instrumentIndex + 1].releasedTones
        tone == released[i + 1]
        instrument == s.song.channels[channelIndex + 1].instruments[instrumentIndex + 1]
        p == playTone(s, channelIndex, runLength, tone, TRUE,
                      tonesPlayed >= MaximumTonesPerChannel)
    IN  IF i >= Len(released) THEN [s |-> s, tonesPlayed |-> tonesPlayed]
        ELSE IF \/ tone.instrumentIndex >= s.song.instrumentsPerChannel
                \/ tone.ticksSinceReleased >= getTransition(instrument).releaseTicks
        THEN PlayReleasedTones(freeReleasedTone(s, channelIndex, instrumentIndex, i),
                               channelIndex, instrumentIndex, runLength, tonesPlayed, i)
        ELSE PlayReleasedTones(
                 [p.s EXCEPT !.channels[channelIndex + 1].instruments[instrumentIndex + 1]
                                 .releasedTones[i + 1] = p.tone],
                 channelIndex, instrumentIndex, runLength, tonesPlayed + 1, i + 1)

RunEffectsAsleep(s, channelIndex, instrumentIndex, runLength) ==
    LET instrument == s.song.channels[channelIndex + 1].instruments[instrumentIndex + 1]
        state == s.channels[channelIndex + 1].instruments[instrumentIndex + 1]
        computed == IF state.computed THEN state
                    ELSE compute(state, instrument, s.tickSampleCountdown, runLength)
        Done(e) ==
            [SetInstrumentState(s, channelIndex, instrumentIndex,
                                [e.state EXCEPT !.computed = FALSE])
                EXCEPT !.mono = 0, !.effectsRan = TRUE,
                       !.output = IF e.output = 1 THEN 1 ELSE @]
    IN  Done(effectsSynth(computed, instrument, s.mono, runLength))

\* if (instrumentState.awake) of the instrument loop: compute, effectsSynth
RunEffects(s, channelIndex, instrumentIndex, runLength) ==
    LET instrument == s.song.channels[channelIndex + 1].instruments[instrumentIndex + 1]
        state == s.channels[channelIndex + 1].instruments[instrumentIndex + 1]
        computed == IF state.computed THEN state
                    ELSE compute(state, instrument, s.tickSampleCountdown, runLength)
        Done(e) ==
            [SetInstrumentState(s, channelIndex, instrumentIndex,
                                [e.state EXCEPT !.computed = FALSE])
                EXCEPT !.mono = 0, !.effectsRan = TRUE,
                       !.output = IF e.output = 1 THEN 1 ELSE @]
    IN  IF state.awake THEN Done(effectsSynth(computed, instrument, s.mono, runLength))
        ELSE s

\* the tones of the pool, of the active queue of the channel and of the
\* released queues of its instruments
TonesCounted(s, channelIndex) ==
    LET RECURSIVE Released(_)
        Released(i) ==
            IF i > Len(s.channels[channelIndex + 1].instruments) THEN 0
            ELSE Len(s.channels[channelIndex + 1].instruments[i].releasedTones)
                 + Released(i + 1)
    IN  [pool |-> Len(s.tonePool),
         active |-> Len(s.channels[channelIndex + 1].activeTones),
         released |-> Released(1)]

\* the synth after determineCurrentActiveTones on st, with the call told in
\* synced: the channel, the playhead, and the tones counted before and after
Synced(st, after, channelIndex, playSong) ==
    [after EXCEPT !.synced = Append(@,
        [channelIndex |-> channelIndex, playSong |-> playSong, bar |-> st.bar,
         time |-> st.part + st.beat * Config.partsPerBeat,
         taken |-> after.taken - st.taken,
         before |-> TonesCounted(st, channelIndex),
         after |-> TonesCounted(after, channelIndex)])]

\* one turn of the loop over the instruments of a channel: the synth and
\* tonesPlayedInThisChannel
InstrumentTurn(s, channelIndex, instrumentIndex, runLength, playSong, tonesPlayed) ==
    LET isCurrent == instrumentIndex = getPatternInstrument(s.song, channelIndex, s.bar)
        live == IF isCurrent /\ channelIndex = s.liveInputChannel
                THEN PlayLiveInputTones(determineLiveInputTones(s), channelIndex,
                                        runLength, 0)
                ELSE s
        Active(st) ==
            IF isCurrent
            THEN PlayActiveTones(
                     Synced(st, determineCurrentActiveTones(st, channelIndex, playSong),
                            channelIndex, playSong),
                     channelIndex, runLength, 0)
            ELSE st
        Released(st) ==
            PlayReleasedTones(st, channelIndex, instrumentIndex, runLength,
                              tonesPlayed
                              + (IF isCurrent /\ channelIndex = s.liveInputChannel
                                 THEN Len(st.liveInputTones) ELSE 0)
                              + (IF isCurrent
                                 THEN Len(st.channels[channelIndex + 1].activeTones)
                                 ELSE 0),
                              0)
        Effects(r) == [s |-> RunEffects(r.s, channelIndex, instrumentIndex, runLength),
                       tonesPlayed |-> r.tonesPlayed]
    IN  Effects(Released(Active(live)))

\* the loops over the channels and their instruments, from the k-th turn on
RECURSIVE PlayChannels(_, _, _, _, _)
PlayChannels(s, runLength, playSong, tonesPlayed, k) ==
    LET perChannel == s.song.instrumentsPerChannel
        channelIndex == k \div perChannel
        instrumentIndex == k % perChannel
        Next(r) == PlayChannels(r.s, runLength, playSong, r.tonesPlayed, k + 1)
    IN  IF k >= getChannelCount(s.song) * perChannel THEN s
        ELSE Next(InstrumentTurn(s, channelIndex, instrumentIndex, runLength, playSong,
                                 IF instrumentIndex = 0 THEN 0 ELSE tonesPlayed))

ReleasedAtTickEndKeepsAge(released) ==
    [kept |-> SelectSeq([i \in 1 .. Len(released) |->
                            [released[i] EXCEPT !.heldTicks = @ + 1]],
                        LAMBDA tone : ~tone.isOnLastTick),
     freed |-> SelectSeq(released, LAMBDA tone : tone.isOnLastTick)]

\* the released tones at a tick end: those on their last tick freed, the
\* others a tick older: the tones kept and the tones freed
ReleasedAtTickEnd(released) ==
    [kept |-> SelectSeq([i \in 1 .. Len(released) |->
                            [released[i] EXCEPT !.ticksSinceReleased = @ + 1,
                                                !.heldTicks = @ + 1]],
                        LAMBDA tone : ~tone.isOnLastTick),
     freed |-> SelectSeq(released, LAMBDA tone : tone.isOnLastTick)]

\* the loop over the channels and instruments at a tick end, from the k-th on
RECURSIVE TickEnd(_, _)
TickEnd(s, k) ==
    LET perChannel == s.song.instrumentsPerChannel
        channelIndex == k \div perChannel
        instrumentIndex == k % perChannel
        state == s.channels[channelIndex + 1].instruments[instrumentIndex + 1]
        tones == ReleasedAtTickEnd(state.releasedTones)
        swept == [state EXCEPT !.releasedTones = tones.kept]
        \* idleTicks: the ticks that ended since a tone was played on the
        \* instrument, while it is awake
        Ended(st) == [st EXCEPT !.tonesAddedInThisTick = FALSE,
                                !.idleTicks = IF st.tonesAddedInThisTick \/ ~st.awake
                                              THEN 0 ELSE @ + 1]
    IN  IF k >= getChannelCount(s.song) * perChannel THEN s
        ELSE TickEnd([SetInstrumentState(s, channelIndex, instrumentIndex,
                          Ended(IF swept.deactivateAfterThisTick THEN deactivate(swept)
                                ELSE swept))
                         EXCEPT !.tonePool = @ \o tones.freed,
                                !.deactivated =
                                    IF swept.deactivateAfterThisTick
                                    THEN Append(@, [channelIndex |-> channelIndex,
                                                    instrumentIndex |-> instrumentIndex,
                                                    state |-> swept])
                                    ELSE @],
                     k + 1)

\* the loop over the active tones of a channel at a part boundary, from i on
RECURSIVE EndNotesSkipsNext(_, _, _)
EndNotesSkipsNext(s, channelIndex, i) ==
    LET toneList == s.channels[channelIndex + 1].activeTones
        tone == toneList[i + 1]
        transition == getTransition(s.song.channels[channelIndex + 1]
                                       .instruments[tone.instrumentIndex + 1])
        removed == [s EXCEPT !.channels[channelIndex + 1].activeTones =
                                 RemoveAt(toneList, i)]
    IN  IF i >= Len(toneList) THEN s
        ELSE IF /\ ~transition.isSeamless /\ tone.note # NoNote
                /\ tone.note.end = s.part + s.beat * Config.partsPerBeat
        THEN EndNotesSkipsNext(IF transition.releases
                      THEN releaseTone(removed, channelIndex, tone.instrumentIndex, tone)
                      ELSE freeTone(removed, tone),
                      channelIndex, i + 1)
        ELSE EndNotesSkipsNext(s, channelIndex, i + 1)

RECURSIVE EndNotes(_, _, _)
EndNotes(s, channelIndex, i) ==
    LET toneList == s.channels[channelIndex + 1].activeTones
        tone == toneList[i + 1]
        transition == getTransition(s.song.channels[channelIndex + 1]
                                       .instruments[tone.instrumentIndex + 1])
        removed == [s EXCEPT !.channels[channelIndex + 1].activeTones =
                                 RemoveAt(toneList, i)]
    IN  IF i >= Len(toneList) THEN s
        ELSE IF /\ ~transition.isSeamless /\ tone.note # NoNote
                /\ tone.note.end = s.part + s.beat * Config.partsPerBeat
        THEN EndNotes(IF transition.releases
                      THEN releaseTone(removed, channelIndex, tone.instrumentIndex, tone)
                      ELSE freeTone(removed, tone),
                      channelIndex, i)
        ELSE EndNotes(s, channelIndex, i + 1)

\* "Check if any active tones should be released": EndNotes on every channel
RECURSIVE PartBoundary(_, _)
PartBoundary(s, channelIndex) ==
    IF channelIndex >= getChannelCount(s.song) THEN s
    ELSE PartBoundary(EndNotes(s, channelIndex, 0), channelIndex + 1)

freeAllTonesKeepsLiveInput(s) ==
    [s EXCEPT !.tonePool = @ \o s.liveInputTones]

\* Synth.freeAllTones()
freeAllTones(s) ==
    LET RECURSIVE Back(_)
        \* the tones of a deque in the order popBack() gives them
        Back(deque) == IF deque = << >> THEN << >>
                       ELSE << deque[Len(deque)] >> \o Back(SubSeq(deque, 1, Len(deque) - 1))
        RECURSIVE Of(_, _)
        Of(channel, i) ==
            IF i > Len(channel.instruments) THEN << >>
            ELSE Back(channel.instruments[i].releasedTones) \o Of(channel, i + 1)
        RECURSIVE All(_)
        All(c) == IF c > Len(s.channels) THEN << >>
                  ELSE Back(s.channels[c].activeTones) \o Of(s.channels[c], 1) \o All(c + 1)
    IN  [s EXCEPT !.tonePool = @ \o Back(s.liveInputTones) \o All(1),
                  !.liveInputTones = << >>,
                  !.channels = [c \in 1 .. Len(@) |->
                      [activeTones |-> << >>,
                       instruments |-> [i \in 1 .. Len(@[c].instruments) |->
                           [@[c].instruments[i] EXCEPT !.releasedTones = << >>]]]]]

\* Synth.resetEffects()
resetEffects(s) ==
    LET freed == freeAllTones(s)
    IN  [freed EXCEPT !.channels = [c \in 1 .. Len(@) |->
            [@[c] EXCEPT !.instruments = [i \in 1 .. Len(@) |-> resetAllEffects(@[i])]]]]

NextBarOfKeepsRepeats(s) ==
    LET loops == s.loopRepeatCount # 0
                 /\ s.bar + 1 = s.song.loopStart + s.song.loopLength
    IN  [s EXCEPT !.bar = IF loops THEN s.song.loopStart ELSE @ + 1]

\* the bar after this.bar++ at the end of a bar, the loop taken when it is to
\* be: the synth with bar and loopRepeatCount
NextBarOf(s) ==
    LET loops == s.loopRepeatCount # 0
                 /\ s.bar + 1 = s.song.loopStart + s.song.loopLength
    IN  [s EXCEPT !.bar = IF loops THEN s.song.loopStart ELSE @ + 1,
                  !.loopRepeatCount = IF loops /\ @ > 0 THEN @ - 1 ELSE @]

\* the end of a tick in synthesize: from "Track how long tones have been
\* released" to the end of the loop's turn
EndTick(s, playSong) ==
    LET swept == TickEnd(s, 0)
        ticked == [swept EXCEPT !.tick = @ + 1,
                                !.tickSampleCountdown = @ + SamplesPerTick]
        \* liveInputDuration is only tested for being positive: it is not
        \* counted down below zero
        turned == [ticked EXCEPT !.tick = 0, !.part = @ + 1,
                                 !.liveInputDuration = IF @ > 0 THEN @ - 1 ELSE @]
        parted == PartBoundary([turned EXCEPT !.partEnd =
                                   << [channels |-> turned.channels,
                                       tonePool |-> turned.tonePool,
                                       position |-> turned.part
                                           + turned.beat * Config.partsPerBeat] >>], 0)
        beaten == [parted EXCEPT !.part = 0, !.beat = IF playSong THEN @ + 1 ELSE @]
        barred == NextBarOf([beaten EXCEPT !.beat = 0])
        Wrapped(st) ==
            IF st.bar >= st.song.barCount
            THEN IF st.loopRepeatCount # 0 - 1
                 THEN [resetEffects([st EXCEPT !.bar = 0])
                          EXCEPT !.isPlayingSong = FALSE, !.ended = TRUE]
                 ELSE [st EXCEPT !.bar = 0]
            ELSE st
    IN  IF ticked.tick # Config.ticksPerPart THEN ticked
        ELSE IF parted.part # Config.partsPerBeat THEN parted
        ELSE IF ~playSong \/ beaten.beat # s.song.beatsPerBar THEN beaten
        ELSE Wrapped(barred)

CheckPlayheadCountdownOnly(s, playSong) ==
    [s EXCEPT !.tickSampleCountdown =
        IF @ <= 0 THEN SamplesPerTick - ((0 - @) % SamplesPerTick)
        ELSE IF @ > SamplesPerTick THEN SamplesPerTick ELSE @]

\* "Check the bounds of the playhead" at the head of synthesize
CheckPlayhead(s, playSong) ==
    LET counted == [s EXCEPT !.tickSampleCountdown =
                        IF @ <= 0 THEN SamplesPerTick - ((0 - @) % SamplesPerTick)
                        ELSE IF @ > SamplesPerTick THEN SamplesPerTick ELSE @]
        barred == IF playSong /\ counted.beat >= counted.song.beatsPerBar
                  THEN NextBarOf([counted EXCEPT !.beat = 0, !.part = 0, !.tick = 0,
                                     !.tickSampleCountdown = SamplesPerTick])
                  ELSE counted
    IN  IF playSong /\ barred.bar >= barred.song.barCount
        THEN [barred EXCEPT !.bar = 0,
                            !.ended = barred.loopRepeatCount # 0 - 1,
                            !.isPlayingSong = IF barred.loopRepeatCount # 0 - 1
                                              THEN FALSE ELSE @]
        ELSE barred

\* one turn of  while (bufferIndex < outputBufferLength && !ended)  of
\* runLength samples
Run(s, runLength, playSong) ==
    LET played == PlayChannels(s, runLength, playSong, 0, 0)
        counted == [played EXCEPT !.tickSampleCountdown = @ - runLength]
    IN  IF counted.tickSampleCountdown <= 0 THEN EndTick(counted, playSong)
        ELSE counted

\* Synth.synthesize(outputDataL, outputDataR, outputBufferLength, playSong) on an
\* output of zeros, for a buffer that ends within the tick: one run
synthesize(s, outputBufferLength, playSong) ==
    LET checked == CheckPlayhead([s EXCEPT !.played = << >>, !.taken = 0,
                                     !.effectsRan = FALSE, !.output = 0,
                                     !.partEnd = << >>, !.synced = << >>,
                                     !.deactivated = << >>,
                                     !.ended = FALSE], playSong)
    IN  IF checked.ended THEN checked
        ELSE Run(checked, MinOf(outputBufferLength, checked.tickSampleCountdown), playSong)

\* Synth.syncSongState()
syncSongState(s) ==
    [s EXCEPT !.channels =
        [c \in 1 .. getChannelCount(s.song) |->
            LET channelState == IF c <= Len(s.channels) THEN s.channels[c]
                                ELSE NewChannelState
            IN  [channelState EXCEPT !.instruments =
                    SetLength(@, s.song.instrumentsPerChannel, NewInstrumentState)]]]

\* new Synth(song): the fields synthesize manages the tones by.  taken, played,
\* effectsRan, output and partEnd tell of the last call of synthesize: the tones
\* taken from newTone(), the tones played in their order, whether effectsSynth
\* ran, whether a sample of the output need not be zero, the queues and the
\* part position the part boundary found when the call reached one, the
\* calls of determineCurrentActiveTones, and the instrument states the tick end
\* called deactivate() on, as they were
NewSynth(song) ==
    syncSongState(
        [song |-> song, bar |-> 0, beat |-> 0, part |-> 0, tick |-> 0,
         tickSampleCountdown |-> 0, isPlayingSong |-> FALSE, loopRepeatCount |-> 0 - 1,
         isPlayingLiveTones |-> FALSE,
         liveInputDuration |-> 0, liveInputStarted |-> FALSE, liveInputPitches |-> << >>,
         liveInputChannel |-> 0, tonePool |-> << >>, liveInputTones |-> << >>,
         made |-> 0,
         channels |-> << >>, mono |-> 0, ended |-> FALSE,
         taken |-> 0, played |-> << >>, effectsRan |-> FALSE, output |-> 0,
         partEnd |-> << >>, synced |-> << >>, deactivated |-> << >>])

\* a note of the pitches from start to end, in parts
SynthNote(start, end, pitches) == [start |-> start, end |-> end, pitches |-> pitches]

\* an instrument by its transition, chord, effects and reverb
SynthInstrument(transition, chord, effects, reverb) ==
    [transition |-> transition, chord |-> chord, effects |-> effects, reverb |-> reverb]

\* a song of beatsPerBarMin beats whose channels are given: each channel its
\* bars, patterns and instruments
SynthSong(channels) ==
    [beatsPerBar |-> Config.beatsPerBarMin, barCount |-> Len(channels[1].bars),
     loopStart |-> 0, loopLength |-> Len(channels[1].bars),
     instrumentsPerChannel |-> Len(channels[1].instruments),
     pitchChannelCount |-> Len(channels), noiseChannelCount |-> 0,
     channels |-> [c \in 1 .. Len(channels) |->
                      [bars |-> channels[c].bars, patterns |-> channels[c].patterns,
                       instruments |-> channels[c].instruments, muted |-> FALSE]]]

\* a channel of one instrument that plays one pattern in every bar
OnePatternChannel(barCount, instrument, notes) ==
    [bars |-> [b \in 1 .. barCount |-> 1],
     patterns |-> << [instrument |-> 0, notes |-> notes] >>,
     instruments |-> << instrument >>]

BothDelays == Pow2(EffectType.reverb) + Pow2(EffectType.chorus)

ThreeNotes == << SynthNote(0, 2, << 12 >>), SynthNote(2, 4, << 12, 16 >>),
                 SynthNote(6, 8, << 12, 16, 19, 24 >>) >>

\* the songs played: without a note; of each kind of transition and chord; of
\* two instruments in a channel; with delay effects; of two channels
SynthSongs ==
    << SynthSong(<< OnePatternChannel(1, SynthInstrument(1, 0, BothDelays, 1), << >>) >>),
       SynthSong(<< OnePatternChannel(1, SynthInstrument(1, 0, 0, 0), ThreeNotes) >>),
       SynthSong(<< OnePatternChannel(1, SynthInstrument(4, 0, 0, 0), ThreeNotes) >>),
       SynthSong(<< OnePatternChannel(1, SynthInstrument(0, 0, 0, 0),
                        << SynthNote(0, 2, << 12, 16 >>), SynthNote(2, 4, << 12 >>),
                           SynthNote(70, 72, << 12 >>) >>) >>),
       SynthSong(<< OnePatternChannel(1, SynthInstrument(3, 1, 0, 0),
                        << SynthNote(0, 4, << 12, 16, 19 >>),
                           SynthNote(4, 8, << 12, 16 >>) >>) >>),
       SynthSong(<< OnePatternChannel(1, SynthInstrument(5, 2, 0, 0),
                        << SynthNote(0, 2, << 12, 16, 19 >>) >>) >>),
       SynthSong(<< [bars |-> << 1, 2 >>,
                     patterns |-> << [instrument |-> 0,
                                      notes |-> << SynthNote(64, 68, << 12, 16, 19, 24 >>),
                                                   SynthNote(68, 72, << 12, 16, 19, 24 >>) >>],
                                     [instrument |-> 1,
                                      notes |-> << SynthNote(0, 4, << 12, 16, 19, 24 >>) >>] >>,
                     instruments |-> << SynthInstrument(5, 0, 0, 0),
                                        SynthInstrument(1, 0, 0, 0) >>] >>),
       SynthSong(<< OnePatternChannel(1, SynthInstrument(4, 0, BothDelays, 1),
                        << SynthNote(0, 1, << 12 >>) >>) >>),
       SynthSong(<< OnePatternChannel(1, SynthInstrument(1, 0, Pow2(EffectType.chorus), 0),
                        << SynthNote(0, 1, << 12 >>) >>) >>),
       SynthSong(<< OnePatternChannel(1, SynthInstrument(1, 0, 0, 0), ThreeNotes),
                    OnePatternChannel(1, SynthInstrument(4, 0, 0, 0),
                        << SynthNote(1, 3, << 12, 16 >>) >>) >>) >>

\* the calls of play(), of pause() and the live inputs a behaviour takes, and
\* the ticks of the first beat they are made in
MaxCalls == 2

CallWindow == 4

InCallWindow ==
    /\ calls < MaxCalls
    /\ synth.beat = 0
    /\ synth.part * Config.ticksPerPart + synth.tick < CallWindow

InitSynth ==
    /\ pc = "synth"
    /\ \E k \in 1 .. Len(SynthSongs), loopRepeatCount \in {0 - 1, 0} :
           synth = [NewSynth(SynthSongs[k]) EXCEPT !.loopRepeatCount = loopRepeatCount]
    /\ calls = 0 /\ delay = NaN /\ audio = NaN /\ flash = NaN
    /\ buffer = NaN /\ walk = NaN /\ tour = NaN
    /\ settings = NewFilter /\ legacyArgs = NaN
    /\ input = NaN /\ url = << >> /\ decoded = NaN
    /\ reurl = << >> /\ redecoded = NaN /\ choice = << >>
    /\ writer = NewWriter /\ reader = NoReader /\ ltIn = NaN /\ ltOut = NaN

\* Synth.play() of a paused synth: warmUpSynthesizer allocates the buffers of
\* every instrument
play(s) ==
    [syncSongState(s) EXCEPT
        !.isPlayingSong = TRUE,
        !.channels = [c \in 1 .. Len(@) |->
            [@[c] EXCEPT !.instruments = [i \in 1 .. Len(@) |->
                allocateNecessaryBuffers(@[i],
                    s.song.channels[c].instruments[i])]]]]

Play ==
    /\ pc = "synth" /\ ~synth.isPlayingSong /\ InCallWindow
    /\ synth' = play(synth)
    /\ calls' = calls + 1
    /\ UNCHANGED << pc, settings, legacyArgs, delay, audio, flash, buffer, walk, tour, codec, bitio >>

\* Synth.pause()
Pause ==
    /\ pc = "synth" /\ synth.isPlayingSong /\ InCallWindow
    /\ synth' = [synth EXCEPT !.isPlayingSong = FALSE]
    /\ calls' = calls + 1
    /\ UNCHANGED << pc, settings, legacyArgs, delay, audio, flash, buffer, walk, tour, codec, bitio >>

\* the parts a live input is held for
LiveInputParts == 2

\* the caller sets liveInputPitches, liveInputDuration and liveInputStarted
\* and calls maintainLiveInput(), whose ten seconds outlast the ticks followed:
\* keys pressed for LiveInputParts parts, or the keys let go
LiveInput ==
    /\ pc = "synth" /\ InCallWindow
    /\ \E duration \in {0, LiveInputParts} :
         \E pitches \in IF duration = 0 THEN {synth.liveInputPitches}
                         ELSE {<< 12 >>, << 12, 16 >>} :
           synth' = [synth EXCEPT !.liveInputPitches = pitches,
                                  !.liveInputDuration = duration,
                                  !.liveInputStarted = TRUE,
                                  !.isPlayingLiveTones = TRUE]
    /\ calls' = calls + 1
    /\ UNCHANGED << pc, settings, legacyArgs, delay, audio, flash, buffer, walk, tour, codec, bitio >>

\* Synth.audioProcessCallback: synthesize(outputDataL, outputDataR,
\* outputBufferLength, isPlayingSong) while the song or live tones play
Synthesize ==
    /\ pc = "synth"
    /\ synth.isPlayingLiveTones \/ synth.isPlayingSong
    /\ \E outputBufferLength \in 1 .. SamplesPerTick :
           synth' = synthesize(synth, outputBufferLength, synth.isPlayingSong)
    /\ UNCHANGED << calls, pc, settings, legacyArgs, delay, audio, flash, buffer, walk, tour, codec, bitio >>

NextSynth == Play \/ Pause \/ LiveInput \/ Synthesize

SpecSynth == InitSynth /\ [][NextSynth]_vars

\* ---------------------------------------------------------------------------
\* The tones of the synth's queues

\* the released tones of the instrument of the channel
ReleasedTones(channelIndex, instrumentIndex) ==
    synth.channels[channelIndex + 1].instruments[instrumentIndex + 1].releasedTones

\* the channels and the instruments of a channel, by index
ChannelIndices == 0 .. getChannelCount(synth.song) - 1

InstrumentIndices == 0 .. synth.song.instrumentsPerChannel - 1

\* the release of the instrument's transition, in ticks
ReleaseTicks(channelIndex, instrumentIndex) ==
    getTransition(synth.song.channels[channelIndex + 1]
                      .instruments[instrumentIndex + 1]).releaseTicks

\* C12: a tone in a released queue has had its ticksSinceReleased raised by one
\* at each tick end it was in the queue for, from zero; it is freed at the end
\* of the first tick it is played in with ticksSinceReleased + 1 >= releaseTicks,
\* so it has seen fewer than releaseTicks tick ends there and leaves the queue
\* within releaseTicks ticks
ReleasedToneFreedInTime ==
    pc = "synth" =>
        \A channelIndex \in ChannelIndices, instrumentIndex \in InstrumentIndices :
            \A i \in 1 .. Len(ReleasedTones(channelIndex, instrumentIndex)) :
                LET tone == ReleasedTones(channelIndex, instrumentIndex)[i]
                IN  /\ tone.ticksSinceReleased = tone.heldTicks
                    /\ tone.heldTicks < ReleaseTicks(channelIndex, instrumentIndex)

\* a released tone of a cross fade, of six ticks, that is on its last tick, and a
\* tone that was freed before it
ReleasedToneFreedInTimeWitness ==
    /\ pc = "synth"
    /\ Len(synth.tonePool) > 0
    /\ \E channelIndex \in ChannelIndices, instrumentIndex \in InstrumentIndices :
           /\ ReleaseTicks(channelIndex, instrumentIndex) = 6
           /\ \E i \in 1 .. Len(ReleasedTones(channelIndex, instrumentIndex)) :
                  LET tone == ReleasedTones(channelIndex, instrumentIndex)[i]
                  IN  tone.heldTicks = 5 /\ tone.isOnLastTick

\* the sequence in the opposite order
Reversed(seq) == [k \in 1 .. Len(seq) |-> seq[Len(seq) + 1 - k]]

\* the tone's note ends at the part position and its transition is not seamless
NoteEndsAt(channelIndex, tone, position) ==
    /\ ~getTransition(synth.song.channels[channelIndex + 1]
                          .instruments[tone.instrumentIndex + 1]).isSeamless
    /\ tone.note # NoNote
    /\ tone.note.end = position

\* the active tones the part boundary found in the channel that it is to release
\* to the instrument's queue (releases) or to free (not releases), in their order
EndingTones(channelIndex, instrumentIndex, releases) ==
    SelectSeq(synth.partEnd[1].channels[channelIndex + 1].activeTones,
              LAMBDA tone :
                  /\ NoteEndsAt(channelIndex, tone, synth.partEnd[1].position)
                  /\ tone.instrumentIndex = instrumentIndex
                  /\ getTransition(synth.song.channels[channelIndex + 1]
                         .instruments[instrumentIndex + 1]).releases = releases)

\* the tones the part boundary frees, in every channel from the k-th on
RECURSIVE FreedAtPartEnd(_)
FreedAtPartEnd(k) ==
    IF k >= getChannelCount(synth.song) * synth.song.instrumentsPerChannel THEN << >>
    ELSE SelectSeq(synth.partEnd[1].channels[(k \div synth.song.instrumentsPerChannel) + 1]
                       .activeTones,
                   LAMBDA tone :
                       /\ NoteEndsAt(k \div synth.song.instrumentsPerChannel, tone,
                                     synth.partEnd[1].position)
                       /\ ~getTransition(synth.song
                              .channels[(k \div synth.song.instrumentsPerChannel) + 1]
                              .instruments[tone.instrumentIndex + 1]).releases
                       /\ k % synth.song.instrumentsPerChannel = 0)
         \o FreedAtPartEnd(k + synth.song.instrumentsPerChannel)

\* C13: at a part boundary every active tone whose transition is not seamless
\* and whose note ends at the new part position leaves the active queue, for
\* the front of its instrument's released queue when the transition releases
\* and for the tone pool otherwise; the other active tones stay, in their order
PartBoundaryEndsNotes ==
    pc = "synth" /\ synth.partEnd # << >> /\ ~synth.ended =>
        /\ synth.tonePool = synth.partEnd[1].tonePool \o FreedAtPartEnd(0)
        /\ \A channelIndex \in ChannelIndices :
               /\ synth.channels[channelIndex + 1].activeTones =
                      SelectSeq(synth.partEnd[1].channels[channelIndex + 1].activeTones,
                                LAMBDA tone : ~NoteEndsAt(channelIndex, tone,
                                                          synth.partEnd[1].position))
               /\ \A instrumentIndex \in InstrumentIndices :
                      ReleasedTones(channelIndex, instrumentIndex) =
                          Reversed([k \in 1 .. Len(EndingTones(channelIndex,
                                                               instrumentIndex, TRUE)) |->
                                       [EndingTones(channelIndex, instrumentIndex, TRUE)[k]
                                           EXCEPT !.heldTicks = 0]])
                          \o synth.partEnd[1].channels[channelIndex + 1]
                                 .instruments[instrumentIndex + 1].releasedTones

\* a part boundary that released a chord of two tones or more while another
\* tone was already in the released queue
PartBoundaryEndsNotesWitness ==
    /\ pc = "synth" /\ synth.partEnd # << >> /\ ~synth.ended
    /\ \E channelIndex \in ChannelIndices, instrumentIndex \in InstrumentIndices :
           /\ Len(EndingTones(channelIndex, instrumentIndex, TRUE)) >= 2
           /\ synth.partEnd[1].channels[channelIndex + 1]
                  .instruments[instrumentIndex + 1].releasedTones # << >>

\* a part boundary that freed a chord of two tones or more while a tone lasted
PartBoundaryFreesNotesWitness ==
    /\ pc = "synth" /\ synth.partEnd # << >> /\ ~synth.ended
    /\ \E channelIndex \in ChannelIndices, instrumentIndex \in InstrumentIndices :
           Len(EndingTones(channelIndex, instrumentIndex, FALSE)) >= 2

\* the note of the pattern of the channel in the bar that covers the time
CoveringNote(channelIndex, bar, time) ==
    IF getPattern(synth.song, channelIndex, bar) = NoPattern THEN NoNote
    ELSE NotesAt(getPattern(synth.song, channelIndex, bar).notes, time).note

\* the chord of the pattern's instrument of the channel in the bar
ChordAt(channelIndex, bar) ==
    getChord(synth.song.channels[channelIndex + 1]
                 .instruments[getPatternInstrument(synth.song, channelIndex, bar) + 1])

\* the tones the active queue is to hold after the call told in the entry of
\* synced, the song playing; NaN for a chord with a strum delay
TonesDue(call) ==
    LET note == CoveringNote(call.channelIndex, call.bar, call.time)
        chord == ChordAt(call.channelIndex, call.bar)
    IN  IF note = NoNote THEN 0
        ELSE IF chord.singleTone THEN 1
        ELSE IF chord.strumParts > 0 THEN NaN
        ELSE Len(note.pitches)

\* the tones are kept: those of the queues and the pool after the call are
\* those before it and the ones newTone() made, the queue grew by no more than
\* newTone() gave, and what left the active queue is released or in the pool
TonesAccounted(call) ==
    LET made == IF call.taken > call.before.pool THEN call.taken - call.before.pool ELSE 0
    IN  /\ call.after.pool + call.after.active + call.after.released =
               call.before.pool + call.before.active + call.before.released + made
        /\ call.after.active <= call.before.active + call.taken
        /\ call.taken > 0 => call.after.active >= call.taken

\* C14 as stated, for every call of determineCurrentActiveTones: the active
\* queue is empty when no note of the current pattern covers the part, holds
\* one tone for a single-tone chord, and as many tones as the note has pitches
\* for another chord without strum delay
ActiveQueueMatchesNoteAlways ==
    pc = "synth" =>
        \A k \in 1 .. Len(synth.synced) :
            TonesDue(synth.synced[k]) # NaN =>
                synth.synced[k].after.active = TonesDue(synth.synced[k])

\* C14 amended: the same while the song is played (playSong), and the missing
\* tones were taken from newTone() and the surplus ones released or pooled;
\* when playSong is false the queue is emptied whatever the pattern holds
ActiveQueueMatchesNote ==
    pc = "synth" =>
        \A k \in 1 .. Len(synth.synced) :
            /\ TonesAccounted(synth.synced[k])
            /\ ~synth.synced[k].playSong => synth.synced[k].after.active = 0
            /\ synth.synced[k].playSong /\ TonesDue(synth.synced[k]) # NaN =>
                   synth.synced[k].after.active = TonesDue(synth.synced[k])

\* a call that found a chord of three pitches or more where the queue held
\* fewer tones, and took the missing ones from newTone()
ActiveQueueMatchesNoteWitness ==
    /\ pc = "synth"
    /\ \E k \in 1 .. Len(synth.synced) :
           /\ synth.synced[k].playSong
           /\ TonesDue(synth.synced[k]) >= 3
           /\ synth.synced[k].taken > 0
           /\ synth.synced[k].before.pool > 0

\* a call that moved surplus tones of a seamless transition out of the queue
ActiveQueueSurplusWitness ==
    /\ pc = "synth"
    /\ \E k \in 1 .. Len(synth.synced) :
           /\ synth.synced[k].playSong
           /\ TonesDue(synth.synced[k]) = 1
           /\ synth.synced[k].before.active = 2

\* the live-input, active and released tones of the channel
TonesOfChannel(channelIndex) ==
    (IF channelIndex = synth.liveInputChannel THEN Len(synth.liveInputTones) ELSE 0)
    + TonesCounted(synth, channelIndex).active
    + TonesCounted(synth, channelIndex).released

\* a call of synthesize has just ended a tick
AtTickEnd == pc = "synth" /\ synth.played # << >> /\ synth.tickSampleCountdown = SamplesPerTick

\* C15: at the end of every tick, after the tones on their last tick are freed,
\* the live-input, active and released tones of a channel are at most
\* maximumTonesPerChannel
TonesPerChannelCapped ==
    AtTickEnd => \A channelIndex \in ChannelIndices :
                     TonesOfChannel(channelIndex) <= MaximumTonesPerChannel

\* the same for the songs of one instrument in a channel
TonesPerChannelCappedOneInstrument ==
    AtTickEnd /\ synth.song.instrumentsPerChannel = 1 =>
        \A channelIndex \in ChannelIndices :
            TonesOfChannel(channelIndex) <= MaximumTonesPerChannel

\* the instrument and the instrument state of the channel
InstrumentOf(channelIndex, instrumentIndex) ==
    synth.song.channels[channelIndex + 1].instruments[instrumentIndex + 1]

StateOf(channelIndex, instrumentIndex) ==
    synth.channels[channelIndex + 1].instruments[instrumentIndex + 1]

\* (reverbDelayBufferSize + chorusDelayBufferSize) / samplesPerTick + 1
TailTicks == (ReverbDelayBufferSize + ChorusDelayBufferSize) \div SamplesPerTick + 1

\* C16: an instrument with the reverb or the chorus effect that has played no
\* tone for (reverbDelayBufferSize + chorusDelayBufferSize) / samplesPerTick + 1
\* ticks has reached deactivateAfterThisTick, or was deactivated
TailFlushedInTime ==
    pc = "synth" =>
        \A channelIndex \in ChannelIndices, instrumentIndex \in InstrumentIndices :
            /\ \/ usesReverb(InstrumentOf(channelIndex, instrumentIndex))
               \/ usesChorus(InstrumentOf(channelIndex, instrumentIndex))
            /\ StateOf(channelIndex, instrumentIndex).awake
            /\ StateOf(channelIndex, instrumentIndex).idleTicks >= TailTicks
            => StateOf(channelIndex, instrumentIndex).deactivateAfterThisTick

\* what the code keeps to: the ticks of the attenuation, one at the least, and
\* then those that flush the samples of the delay lines
TailFlushedAfterAttenuation ==
    pc = "synth" =>
        \A channelIndex \in ChannelIndices, instrumentIndex \in InstrumentIndices :
            LET instrument == InstrumentOf(channelIndex, instrumentIndex)
                attenuation == IF DelayDurationTicks(instrument) > 1
                               THEN DelayDurationTicks(instrument) ELSE 1
                flushed == ((IF usesChorus(instrument) THEN ChorusDelayBufferSize ELSE 0)
                            + (IF usesReverb(instrument) THEN ReverbDelayBufferSize ELSE 0)
                            + SamplesPerTick - 1) \div SamplesPerTick
            IN  StateOf(channelIndex, instrumentIndex).awake =>
                    StateOf(channelIndex, instrumentIndex).idleTicks
                        <= attenuation + (IF flushed > 1 THEN flushed ELSE 1)

\* a sample of a delay line of the instrument state need not be zero
LinesSound(state) ==
    \/ Sounds(state.chorusDelayLineL)
    \/ Sounds(state.chorusDelayLineR)
    \/ Sounds(state.reverbDelayLine)

\* C17: when the tick end deactivates an instrument state whose
\* deactivateAfterThisTick was set, every sample of its chorus and reverb delay
\* lines is zero, and the lines stay zero while the state is not awake, that is
\* until a tone is played on the instrument again
DelayLinesZeroWhenDeactivated ==
    pc = "synth" =>
        /\ \A k \in 1 .. Len(synth.deactivated) : ~LinesSound(synth.deactivated[k].state)
        /\ \A channelIndex \in ChannelIndices, instrumentIndex \in InstrumentIndices :
               ~StateOf(channelIndex, instrumentIndex).awake =>
                   ~LinesSound(StateOf(channelIndex, instrumentIndex))

\* the same for the deactivations at the end of a tick in which no tone was
\* played on the instrument
DelayLinesZeroAfterSilentTick ==
    pc = "synth" =>
        \A k \in 1 .. Len(synth.deactivated) :
            ~synth.deactivated[k].state.tonesAddedInThisTick =>
                ~LinesSound(synth.deactivated[k].state)

\* an instrument state with reverb and chorus is deactivated at a tick end
\* after its delay lines were flushed
DelayLinesZeroWhenDeactivatedWitness ==
    /\ pc = "synth"
    /\ \E k \in 1 .. Len(synth.deactivated) :
           /\ synth.deactivated[k].state.reverbDelayLine # NoLine
           /\ synth.deactivated[k].state.chorusDelayLineL # NoLine
           /\ synth.deactivated[k].state.flushedSamples
                  >= ReverbDelayBufferSize + ChorusDelayBufferSize

\* C27: the tick end calls deactivate() only for an instrument state on which no
\* tone was played in the tick: tonesAddedInThisTick is false for it
NeverDeactivatedWithTones ==
    pc = "synth" =>
        \A k \in 1 .. Len(synth.deactivated) :
            ~synth.deactivated[k].state.tonesAddedInThisTick

\* no pattern of the song holds a note
SongIsEmpty ==
    \A c \in 1 .. Len(synth.song.channels) :
        \A p \in 1 .. Len(synth.song.channels[c].patterns) :
            synth.song.channels[c].patterns[p].notes = << >>

\* C18: for a song without a note in any pattern and without live input, no
\* call of synthesize takes a tone from newTone(), wakes an instrument state or
\* runs effectsSynth, and the output stays zero
EmptySongStaysSilent ==
    pc = "synth" /\ SongIsEmpty /\ ~synth.isPlayingLiveTones =>
        /\ synth.taken = 0 /\ synth.played = << >> /\ synth.tonePool = << >>
        /\ ~synth.effectsRan /\ synth.output = 0
        /\ \A channelIndex \in ChannelIndices, instrumentIndex \in InstrumentIndices :
               ~StateOf(channelIndex, instrumentIndex).awake

\* the empty song was played without live input into its second beat
EmptySongStaysSilentWitness ==
    /\ pc = "synth" /\ SongIsEmpty /\ ~synth.isPlayingLiveTones
    /\ synth.isPlayingSong /\ synth.beat = 1 /\ synth.part = 3

\* C19: in a run of synthesize the tones are played in the order of the
\* channels, and within a channel every active tone before any released tone
TonesPlayedInOrder ==
    pc = "synth" =>
        \A i, j \in 1 .. Len(synth.played) :
            i < j =>
                /\ synth.played[i].channelIndex <= synth.played[j].channelIndex
                /\ synth.played[i].channelIndex = synth.played[j].channelIndex
                   /\ synth.played[i].released
                   => synth.played[j].released

\* what the code keeps to: the channels in their order, and active before
\* released tones among the tones of one instrument
TonesPlayedInInstrumentOrder ==
    pc = "synth" =>
        \A i, j \in 1 .. Len(synth.played) :
            i < j =>
                /\ synth.played[i].channelIndex <= synth.played[j].channelIndex
                /\ synth.played[i].channelIndex = synth.played[j].channelIndex
                   /\ synth.played[i].instrumentIndex = synth.played[j].instrumentIndex
                   /\ synth.played[i].released
                   => synth.played[j].released

\* ---------------------------------------------------------------------------
\* The sanitization of a delay line

\* what a sample of a Float32Array can be: zero, of a magnitude of epsilon or
\* more, of a smaller one (a denormal), infinite, or NaN
SampleKinds == {"zero", "normal", "denormal", "infinite", "NaN"}

\* Number.isFinite(sample) && (sample == 0.0 || sample >= epsilon)
IsSane(sample) == sample \in {"zero", "normal"}

\* the samples of the delay line, a power of two, and those a run writes
DelayLineBits == 2

MaxRunLength == 2

\* Synth.sanitizeDelayLine(delayLine, lastIndex, mask): the delay line;
\* lastIndex & mask is lastIndex modulo mask + 1, mask + 1 a power of two
RECURSIVE sanitizeDelayLine(_, _, _)
sanitizeDelayLine(delayLine, lastIndex, mask) ==
    LET index == (lastIndex - 1) % (mask + 1)
    IN  IF IsSane(delayLine[index + 1]) THEN delayLine
        ELSE sanitizeDelayLine([delayLine EXCEPT ![index + 1] = "zero"],
                               lastIndex - 1, mask)

\* new Float32Array(size) of allocateNecessaryBuffers, delayPos 0
InitSanitize ==
    /\ pc = "effects"
    /\ delay = [delayLine |-> [k \in 1 .. Pow2(DelayLineBits) |-> "zero"], delayPos |-> 0]
    /\ settings = NewFilter /\ legacyArgs = NaN /\ synth = NaN /\ calls = 0
    /\ audio = NaN /\ flash = NaN
    /\ buffer = NaN /\ walk = NaN /\ tour = NaN
    /\ input = NaN /\ url = << >> /\ decoded = NaN
    /\ reurl = << >> /\ redecoded = NaN /\ choice = << >>
    /\ writer = NewWriter /\ reader = NoReader /\ ltIn = NaN /\ ltOut = NaN

\* a run of effectsSynth on a delay line: runLength samples are written from
\* delayPos on, each  delayLine[delayPos] = sample; delayPos = (delayPos + 1) &
\* mask,  and the line is sanitized from the new delayPos
EffectsRun ==
    /\ pc = "effects"
    /\ \E runLength \in 1 .. MaxRunLength :
         \E samples \in [0 .. runLength - 1 -> SampleKinds] :
           LET size == Len(delay.delayLine)
               \* the line with the samples written, as a sequence
               written == [k \in 1 .. size |->
                              IF \E i \in 0 .. runLength - 1 :
                                     k - 1 = (delay.delayPos + i) % size
                              THEN samples[(k - 1 - delay.delayPos) % size]
                              ELSE delay.delayLine[k]] \o << >>
               delayPos == (delay.delayPos + runLength) % size
           IN  delay' = [delayLine |-> sanitizeDelayLine(written, delayPos, size - 1),
                         delayPos |-> delayPos]
    /\ UNCHANGED << pc, settings, legacyArgs, synth, calls, audio, flash, buffer, walk, tour, codec, bitio >>

NextSanitize == EffectsRun

SpecSanitize == InitSanitize /\ [][NextSanitize]_vars

\* C20: after the sanitization at the end of an effects run no sample of the
\* delay line is NaN, infinite or a denormal
DelayLineSanitized ==
    pc = "effects" => \A k \in 1 .. Len(delay.delayLine) : IsSane(delay.delayLine[k])

\* what the code keeps to: the sample written last, the one before delayPos,
\* is neither NaN nor infinite nor a denormal
LastSampleSanitized ==
    pc = "effects" =>
        IsSane(delay.delayLine[((delay.delayPos - 1) % Len(delay.delayLine)) + 1])

\* ---------------------------------------------------------------------------
\* The audio source of the Synth: activateAudio, deactivateAudio,
\* maintainLiveInput, play, pause and the host's audio callback, with
\* performance.now() as a clock that only moves forward.
\* ---------------------------------------------------------------------------

\* maintainLiveInput's 10000.0 ms, in steps of the model's clock.
LiveInputHold == 2

\* The last reading of performance.now() the model follows.
MaxNow == 5

\* What the last audio callback did: nothing yet.
NoCallback == [ran |-> FALSE, playing |-> FALSE, passed |-> FALSE,
               silent |-> FALSE, active |-> FALSE, loaded |-> FALSE]

activateAudio(a) == [a EXCEPT !.scriptNode = TRUE]

deactivateAudio(a) == [a EXCEPT !.scriptNode = FALSE]

maintainLiveInput(a) ==
    [activateAudio(a) EXCEPT !.liveInputEndTime = a.now + LiveInputHold]

\* synthesize as the audio source sees it: without a song it writes zeros and
\* deactivates the audio, with one it fills the buffer.
synthesizeAudio(a) ==
    IF ~a.songLoaded
    THEN [deactivateAudio(a) EXCEPT !.last.silent = TRUE]
    ELSE [a EXCEPT !.last.silent = FALSE]

audioProcessCallbackIgnoresDeadline(a) ==
    LET isPlayingLiveTones == FALSE
        seen == [a EXCEPT !.last = [ran |-> TRUE, playing |-> a.isPlayingSong,
                                    passed |-> ~(a.now < a.liveInputEndTime),
                                    silent |-> FALSE, active |-> FALSE,
                                    loaded |-> a.songLoaded]]
        done == IF ~isPlayingLiveTones /\ ~a.isPlayingSong
                THEN [deactivateAudio(seen) EXCEPT !.last.silent = TRUE]
                ELSE synthesizeAudio(seen)
    IN [done EXCEPT !.last.active = done.scriptNode]

audioProcessCallback(a) ==
    LET isPlayingLiveTones == a.now < a.liveInputEndTime
        seen == [a EXCEPT !.last = [ran |-> TRUE, playing |-> a.isPlayingSong,
                                    passed |-> ~(a.now < a.liveInputEndTime),
                                    silent |-> FALSE, active |-> FALSE,
                                    loaded |-> a.songLoaded]]
        done == IF ~isPlayingLiveTones /\ ~a.isPlayingSong
                THEN [deactivateAudio(seen) EXCEPT !.last.silent = TRUE]
                ELSE synthesizeAudio(seen)
    IN [done EXCEPT !.last.active = done.scriptNode]

AudioIdle ==
    /\ pc = "audio" /\ input = NaN /\ url = << >> /\ decoded = NaN
    /\ reurl = << >> /\ redecoded = NaN /\ choice = << >>
    /\ writer = NewWriter /\ reader = NoReader /\ ltIn = NaN /\ ltOut = NaN
    /\ settings = NewFilter /\ legacyArgs = NaN /\ synth = NaN /\ calls = 0
    /\ delay = NaN /\ flash = NaN
    /\ buffer = NaN /\ walk = NaN /\ tour = NaN

InitAudio ==
    /\ AudioIdle
    /\ \E songLoaded \in BOOLEAN :
         audio = [now |-> 0, liveInputEndTime |-> 0, isPlayingSong |-> FALSE,
                  songLoaded |-> songLoaded, scriptNode |-> FALSE,
                  last |-> NoCallback]

AudioStep(a) ==
    /\ pc = "audio"
    /\ audio' = a
    /\ UNCHANGED << pc, settings, legacyArgs, synth, calls, delay, flash,
                    buffer, walk, tour, codec, bitio >>

\* performance.now() is monotonic.
TimePasses ==
    /\ pc = "audio" /\ audio.now < MaxNow
    /\ AudioStep([audio EXCEPT !.now = @ + 1])

MaintainLiveInput == pc = "audio" /\ AudioStep(maintainLiveInput(audio))

SetSong == pc = "audio" /\ AudioStep([audio EXCEPT !.songLoaded = TRUE])

AudioPlay ==
    /\ pc = "audio" /\ ~audio.isPlayingSong
    /\ AudioStep([activateAudio(audio) EXCEPT !.isPlayingSong = TRUE])

AudioPause ==
    /\ pc = "audio" /\ audio.isPlayingSong
    /\ AudioStep([audio EXCEPT !.isPlayingSong = FALSE])

\* The host calls onaudioprocess while the script node is connected.
AudioProcessCallback ==
    /\ pc = "audio" /\ audio.scriptNode
    /\ AudioStep(audioProcessCallback(audio))

NextAudio ==
    \/ TimePasses
    \/ MaintainLiveInput
    \/ SetSong
    \/ AudioPlay
    \/ AudioPause
    \/ AudioProcessCallback

SpecAudio == InitAudio /\ [][NextAudio]_vars

\* C21: an audio callback on a Synth with a song writes silence and deactivates
\* the audio source exactly when no song was playing and the live-input
\* deadline had passed; otherwise it synthesizes and the audio source stays
\* active. Without a song the callback always writes silence and deactivates.
AudioDeactivatedExactlyWhenIdle ==
    (pc = "audio" /\ audio.last.ran) =>
        LET idle == ~audio.last.playing /\ audio.last.passed
        IN IF audio.last.loaded
           THEN /\ audio.last.silent <=> idle
                /\ audio.last.active <=> ~idle
           ELSE audio.last.silent /\ ~audio.last.active

\* A callback that synthesized for live input alone, before the deadline, on a
\* Synth that had deactivated its audio source once already.
AudioDeactivatedExactlyWhenIdleWitness ==
    /\ pc = "audio" /\ audio.last.ran /\ audio.last.loaded
    /\ ~audio.last.playing /\ ~audio.last.passed
    /\ ~audio.last.silent /\ audio.last.active
    /\ audio.now > LiveInputHold

\* ---------------------------------------------------------------------------
\* The Flash Synth (Synth.as): play, pause, the SAMPLE_DATA listener
\* onSampleData and the TIMER listener checkSound.  soundChannel is TRUE for a
\* SoundChannel and FALSE for null; started and stopped count the sound.play()
\* and soundChannel.stop() calls.
\* ---------------------------------------------------------------------------

\* The sound.play() calls the model follows.
MaxSounds == 6

NoTimerCallback == [ran |-> FALSE, restarted |-> FALSE, sampled |-> FALSE,
                    played |-> FALSE]

NewFlashSynth ==
    [paused |-> TRUE, stillGoing |-> FALSE, soundChannel |-> FALSE,
     timerRunning |-> FALSE, started |-> 0, stopped |-> 0,
     sampled |-> FALSE, played |-> FALSE, last |-> NoTimerCallback]

flashPlay(f) ==
    IF ~f.paused THEN f
    ELSE [f EXCEPT !.paused = FALSE, !.soundChannel = TRUE,
                   !.started = @ + 1, !.timerRunning = TRUE,
                   !.stillGoing = TRUE,
                   !.sampled = FALSE, !.played = TRUE]

flashPause(f) ==
    IF f.paused THEN f
    ELSE [f EXCEPT !.paused = TRUE, !.soundChannel = FALSE,
                   !.stopped = @ + 1, !.timerRunning = FALSE,
                   !.stillGoing = FALSE]

onSampleData(f) ==
    IF f.paused THEN [f EXCEPT !.sampled = TRUE]
    ELSE [f EXCEPT !.stillGoing = TRUE, !.sampled = TRUE]

checkSoundAlwaysRestarts(f) ==
    LET seen == [f EXCEPT !.last = [ran |-> TRUE, restarted |-> TRUE,
                                    sampled |-> f.sampled, played |-> f.played],
                          !.sampled = FALSE, !.played = FALSE]
    IN [seen EXCEPT !.stopped = IF f.soundChannel THEN @ + 1 ELSE @,
                    !.soundChannel = TRUE, !.started = @ + 1]

checkSound(f) ==
    LET seen == [f EXCEPT !.last = [ran |-> TRUE, restarted |-> ~f.stillGoing,
                                    sampled |-> f.sampled, played |-> f.played],
                          !.sampled = FALSE, !.played = FALSE]
    IN IF ~f.stillGoing
       THEN [seen EXCEPT !.stopped = IF f.soundChannel THEN @ + 1 ELSE @,
                         !.soundChannel = TRUE, !.started = @ + 1]
       ELSE [seen EXCEPT !.stillGoing = FALSE]

InitFlash ==
    /\ pc = "flash" /\ flash = NewFlashSynth
    /\ input = NaN /\ url = << >> /\ decoded = NaN
    /\ reurl = << >> /\ redecoded = NaN /\ choice = << >>
    /\ writer = NewWriter /\ reader = NoReader /\ ltIn = NaN /\ ltOut = NaN
    /\ settings = NewFilter /\ legacyArgs = NaN /\ synth = NaN /\ calls = 0
    /\ delay = NaN /\ audio = NaN /\ buffer = NaN /\ walk = NaN /\ tour = NaN

FlashStep(f) ==
    /\ pc = "flash"
    /\ flash' = f
    /\ UNCHANGED << pc, settings, legacyArgs, synth, calls, delay, audio,
                    buffer, walk, tour, codec, bitio >>

FlashPlay ==
    /\ pc = "flash" /\ flash.started < MaxSounds
    /\ FlashStep(flashPlay(flash))

FlashPause == pc = "flash" /\ FlashStep(flashPause(flash))

\* The Sound object asks for samples; an event dispatched before pause() can
\* still arrive after it.
OnSampleData == pc = "flash" /\ FlashStep(onSampleData(flash))

\* The Timer dispatches TIMER events between timer.start() and timer.stop().
CheckSound ==
    /\ pc = "flash" /\ flash.timerRunning /\ flash.started < MaxSounds
    /\ FlashStep(checkSound(flash))

NextFlash ==
    \/ FlashPlay
    \/ FlashPause
    \/ OnSampleData
    \/ CheckSound

SpecFlash == InitFlash /\ [][NextFlash]_vars

FlashChannelWhilePlaying ==
    /\ flash.soundChannel <=> ~flash.paused
    /\ flash.timerRunning <=> ~flash.paused
    /\ flash.started - flash.stopped = (IF flash.paused THEN 0 ELSE 1)

\* C30, as stated: checkSound restarts the sound channel exactly when no
\* onSampleData callback ran since the previous timer callback or since play,
\* and soundChannel is non-null exactly while playing.
FlashRestartsExactlyWhenNoSamples ==
    pc = "flash" =>
        /\ flash.last.ran => (flash.last.restarted <=> ~flash.last.sampled)
        /\ FlashChannelWhilePlaying

\* C30, amended: checkSound restarts the sound channel exactly when neither
\* an onSampleData callback nor play() ran since the previous timer callback,
\* and soundChannel is non-null exactly while playing.
FlashRestartsExactlyWhenStalled ==
    pc = "flash" =>
        /\ flash.last.ran =>
             (flash.last.restarted <=> ~(flash.last.sampled \/ flash.last.played))
        /\ FlashChannelWhilePlaying

\* A timer callback restarted the channel of a playing synth, after an
\* earlier one had not.
FlashRestartsExactlyWhenStalledWitness ==
    /\ pc = "flash" /\ flash.last.ran /\ flash.last.restarted
    /\ ~flash.paused /\ flash.started >= 3 /\ flash.stopped >= 2

\* ---------------------------------------------------------------------------
\* Live input on a channel whose bars use different instruments, with the
\* caller moving the playhead between the audio callbacks.
\* ---------------------------------------------------------------------------

\* the song whose channel plays instrument 0 in bar 0 and instrument 1 in bar 1
TwoInstrumentSong == SynthSongs[7]

InitLiveBar ==
    /\ pc = "synth"
    /\ synth = NewSynth(TwoInstrumentSong)
    /\ calls = 0 /\ delay = NaN /\ audio = NaN /\ flash = NaN
    /\ buffer = NaN /\ walk = NaN /\ tour = NaN
    /\ settings = NewFilter /\ legacyArgs = NaN
    /\ input = NaN /\ url = << >> /\ decoded = NaN
    /\ reurl = << >> /\ redecoded = NaN /\ choice = << >>
    /\ writer = NewWriter /\ reader = NoReader /\ ltIn = NaN /\ ltOut = NaN

\* Synth.goToBar(bar), once, after the other calls or between them and up to
\* the tick that ends the call window
GoToBar ==
    /\ pc = "synth" /\ calls <= MaxCalls /\ synth.beat = 0
    /\ synth.part * Config.ticksPerPart + synth.tick <= CallWindow
    /\ \E bar \in 0 .. synth.song.barCount - 1 :
           synth' = [synth EXCEPT !.bar = bar]
    /\ calls' = MaxCalls + 1
    /\ UNCHANGED << pc, settings, legacyArgs, delay, audio, flash, buffer, walk, tour, codec, bitio >>

NextLiveBar == GoToBar \/ Play \/ Pause \/ LiveInput \/ Synthesize

SpecLiveBar == InitLiveBar /\ [][NextLiveBar]_vars

\* C28: every tone in the released queue of instrument j of a channel has
\* instrumentIndex j.
ReleasedTonesOfOwnInstrument ==
    pc = "synth" =>
        \A c \in ChannelIndices : \A j \in InstrumentIndices :
            \A k \in 1 .. Len(ReleasedTones(c, j)) :
                ReleasedTones(c, j)[k].instrumentIndex = j

\* ---------------------------------------------------------------------------
\* The loop of synthesize over the output buffer, with the fractional sample
\* counts of getSamplesPerTick(): tickSampleCountdown and samplesPerTick are
\* counted in halves of a sample, bufferIndex and runLength in samples.
\* ---------------------------------------------------------------------------

\* the fractions a sample is counted in: halves
Halves == 2

\* the greatest |tickSampleCountdown| a call starts from, in halves
MaxCountdown == 7

\* the greatest outputBufferLength of a call
MaxBufferLength == 4

\* the synthesize calls followed
MaxBufferCalls == 2

\* getSamplesPerTick() of the songs followed, in halves: 1, 1.5 and 2.5 samples
SamplesPerTickChoices == {Halves, Halves + 1, 2 * Halves + 1}

\* Math.ceil of a count of halves, in samples
Ceil(halves) == 0 - ((0 - halves) \div Halves)

\* Math.floor of a count of halves, in samples
Floor(halves) == halves \div Halves

\* while (tickSampleCountdown <= 0) tickSampleCountdown += samplesPerTick;
\* if (tickSampleCountdown > samplesPerTick) tickSampleCountdown = samplesPerTick
checkCountdown(tickSampleCountdown, samplesPerTick) ==
    IF tickSampleCountdown <= 0
    THEN samplesPerTick - ((0 - tickSampleCountdown) % samplesPerTick)
    ELSE IF tickSampleCountdown > samplesPerTick THEN samplesPerTick
    ELSE tickSampleCountdown

runLengthFloored(b) ==
    MinOf(Floor(b.tickSampleCountdown), b.outputBufferLength - b.bufferIndex)

\* samplesLeftInBuffer, samplesLeftInTick and runLength of a turn of the loop
runLengthOf(b) ==
    MinOf(Ceil(b.tickSampleCountdown), b.outputBufferLength - b.bufferIndex)

\* while (bufferIndex < outputBufferLength && !ended)
InLoop(b) == b.phase = "loop" /\ b.bufferIndex < b.outputBufferLength /\ ~b.ended

InitBuffer ==
    /\ pc = "buffer"
    /\ \E samplesPerTick \in SamplesPerTickChoices,
          tickSampleCountdown \in (0 - MaxCountdown) .. MaxCountdown :
         buffer = [samplesPerTick |-> samplesPerTick,
                   tickSampleCountdown |-> tickSampleCountdown,
                   phase |-> "idle", bufferIndex |-> 0, outputBufferLength |-> 0,
                   ended |-> FALSE, runs |-> 0, callsMade |-> 0]
    /\ settings = NewFilter /\ legacyArgs = NaN /\ synth = NaN /\ calls = 0
    /\ delay = NaN /\ audio = NaN /\ flash = NaN /\ walk = NaN /\ tour = NaN
    /\ input = NaN /\ url = << >> /\ decoded = NaN
    /\ reurl = << >> /\ redecoded = NaN /\ choice = << >>
    /\ writer = NewWriter /\ reader = NoReader /\ ltIn = NaN /\ ltOut = NaN

BufferStep(b) ==
    /\ buffer' = b
    /\ UNCHANGED << pc, settings, legacyArgs, synth, calls, delay, audio, flash,
                    walk, tour, codec, bitio >>

\* the head of synthesize: the bounds of the playhead; a playhead past the last
\* bar of a song that does not loop ends the call there
BufferCall ==
    /\ pc = "buffer" /\ buffer.phase = "idle" /\ buffer.callsMade < MaxBufferCalls
    /\ \E outputBufferLength \in 1 .. MaxBufferLength, ended \in BOOLEAN :
         BufferStep([buffer EXCEPT
             !.tickSampleCountdown = checkCountdown(@, buffer.samplesPerTick),
             !.phase = "loop", !.bufferIndex = 0,
             !.outputBufferLength = outputBufferLength,
             !.ended = ended, !.runs = 0, !.callsMade = @ + 1])

\* a turn of the loop: runLength samples, and the end of the tick when the
\* countdown is used up; the tick that ends the last bar may end the song
BufferRun ==
    /\ pc = "buffer" /\ InLoop(buffer)
    /\ LET runLength == runLengthOf(buffer)
           counted == buffer.tickSampleCountdown - runLength * Halves
       IN  \E ended \in IF counted <= 0 THEN BOOLEAN ELSE {FALSE} :
             BufferStep([buffer EXCEPT
                 !.bufferIndex = @ + runLength,
                 !.tickSampleCountdown =
                     IF counted <= 0 THEN counted + buffer.samplesPerTick
                     ELSE counted,
                 !.ended = ended,
                 !.runs = IF @ < MaxBufferLength THEN @ + 1 ELSE @])

\* the loop is left
BufferReturn ==
    /\ pc = "buffer" /\ buffer.phase = "loop" /\ ~InLoop(buffer)
    /\ BufferStep([buffer EXCEPT !.phase = "idle"])

NextBuffer == BufferCall \/ BufferRun \/ BufferReturn

SpecBuffer == InitBuffer /\ [][NextBuffer]_vars

\* a call of synthesize runs to its end
SpecBufferFair == SpecBuffer /\ WF_vars(BufferRun) /\ WF_vars(BufferReturn)

\* C23: in every turn of synthesize's loop runLength is at least 1, bufferIndex
\* grows with every turn, and the call comes to its end with bufferIndex equal
\* to outputBufferLength unless the song ended.
BufferFilled ==
    /\ [](InLoop(buffer) => runLengthOf(buffer) >= 1)
    /\ [][InLoop(buffer) => buffer'.bufferIndex > buffer.bufferIndex]_vars
    /\ [](buffer.phase = "loop" =>
            <>(/\ buffer.phase = "idle"
               /\ buffer.bufferIndex = buffer.outputBufferLength \/ buffer.ended))

\* a call that filled a buffer of 4 samples in three turns or more, at 1.5
\* samples per tick
BufferFilledWitness ==
    /\ pc = "buffer" /\ buffer.phase = "idle" /\ buffer.callsMade > 0
    /\ buffer.samplesPerTick = Halves + 1 /\ buffer.runs >= 3 /\ ~buffer.ended
    /\ buffer.bufferIndex = buffer.outputBufferLength

\* ---------------------------------------------------------------------------
\* The clock of a playing synth: bar, beat, part, tick and tickSampleCountdown
\* over songs with an intro, a loop and an outro.  tour tells of the playback:
\* the loopRepeatCount it began with, the bars played to their end and the
\* synthesize calls made.
\* ---------------------------------------------------------------------------

\* the layouts of the songs: barCount, loopStart, loopLength
TourLayouts == { << 3, 1, 1 >>, << 2, 0, 2 >>, << 2, 1, 1 >>, << 2, 0, 1 >> }

TourSong(layout) ==
    [SynthSong(<< OnePatternChannel(layout[1], SynthInstrument(1, 0, 0, 0),
                      << SynthNote(0, 2, << 12 >>) >>) >>)
        EXCEPT !.loopStart = layout[2], !.loopLength = layout[3]]

\* the greatest loopRepeatCount a playback begins with
MaxRepeats == 2

\* the bars a playback is followed for
MaxTourBars == 7

\* the synthesize calls followed from a playhead set by the caller
MaxPlayheadCalls == 5

\* how far the caller's bar and beat lie beyond the song's, after a song edit
MaxBeyond == 1

\* the position within the bar, in ticks
TickInBar(s) ==
    (s.beat * Config.partsPerBeat + s.part) * Config.ticksPerPart + s.tick

\* Synth.getTotalBars(enableIntro, enableOutro) for a loopRepeatCount
getTotalBars(song, loopRepeatCount, enableIntro, enableOutro) ==
    song.loopLength * (loopRepeatCount + 1)
    + (IF enableIntro THEN song.loopStart ELSE 0)
    + (IF enableOutro THEN song.barCount - (song.loopStart + song.loopLength) ELSE 0)

TourIdle ==
    /\ pc = "synth"
    /\ calls = 0 /\ delay = NaN /\ audio = NaN /\ flash = NaN /\ buffer = NaN
    /\ walk = NaN
    /\ settings = NewFilter /\ legacyArgs = NaN
    /\ input = NaN /\ url = << >> /\ decoded = NaN
    /\ reurl = << >> /\ redecoded = NaN /\ choice = << >>
    /\ writer = NewWriter /\ reader = NoReader /\ ltIn = NaN /\ ltOut = NaN

NewTour(loopRepeatCount) ==
    [repeats |-> loopRepeatCount, barsPlayed |-> 0, synthesized |-> 0,
     before |-> NaN, pausedItself |-> FALSE]

\* a playback from bar 0
InitTour ==
    /\ TourIdle
    /\ \E layout \in TourLayouts, loopRepeatCount \in (0 - 1) .. MaxRepeats :
         /\ synth = play([NewSynth(TourSong(layout))
                            EXCEPT !.loopRepeatCount = loopRepeatCount])
         /\ tour = NewTour(loopRepeatCount)

\* a playback whose bar, beat and tickSampleCountdown the caller has set, on a
\* song that may have become shorter since
InitPlayhead ==
    /\ TourIdle
    /\ \E layout \in TourLayouts, loopRepeatCount \in (0 - 1) .. 1 :
       \E bar \in 0 .. layout[1] + MaxBeyond,
          beat \in 0 .. Config.beatsPerBarMin + MaxBeyond,
          part \in {0, Config.partsPerBeat - 1},
          tick \in 0 .. Config.ticksPerPart - 1,
          tickSampleCountdown \in (0 - SamplesPerTick - 1) .. (SamplesPerTick + 2) :
         /\ synth = [play([NewSynth(TourSong(layout))
                             EXCEPT !.loopRepeatCount = loopRepeatCount])
                        EXCEPT !.bar = bar, !.beat = beat, !.part = part,
                               !.tick = tick,
                               !.tickSampleCountdown = tickSampleCountdown]
         /\ tour = NewTour(loopRepeatCount)

\* an audio callback of the playing synth
TourSynthesize ==
    /\ pc = "synth" /\ synth.isPlayingSong
    /\ tour.barsPlayed < MaxTourBars
    /\ \E outputBufferLength \in 1 .. SamplesPerTick :
         LET after == synthesize(synth, outputBufferLength, TRUE)
         IN  /\ synth' = after
             /\ tour' = [tour EXCEPT
                   !.barsPlayed = IF TickInBar(after) < TickInBar(synth)
                                  THEN @ + 1 ELSE @,
                   !.synthesized = IF @ < MaxPlayheadCalls THEN @ + 1 ELSE @,
                   !.before = [bar |-> synth.bar, tickInBar |-> TickInBar(synth),
                               tickSampleCountdown |-> synth.tickSampleCountdown,
                               loopRepeatCount |-> synth.loopRepeatCount],
                   !.pausedItself = ~after.isPlayingSong]
    /\ UNCHANGED << calls, pc, settings, legacyArgs, delay, audio, flash, buffer,
                    walk, codec, bitio >>

\* the callbacks followed after the caller set the playhead
PlayheadSynthesize ==
    /\ tour.synthesized < MaxPlayheadCalls
    /\ TourSynthesize

NextTour == TourSynthesize

SpecTour == InitTour /\ [][NextTour]_vars

NextPlayhead == PlayheadSynthesize

SpecPlayhead == InitPlayhead /\ [][NextPlayhead]_vars

\* the ticks of a bar of the song
TicksPerBar(song) == song.beatsPerBar * Config.partsPerBeat * Config.ticksPerPart

ClockInRange(s) ==
    /\ 0 <= s.tick /\ s.tick < Config.ticksPerPart
    /\ 0 <= s.part /\ s.part < Config.partsPerBeat
    /\ 0 <= s.beat /\ s.beat < s.song.beatsPerBar
    /\ 0 <= s.bar /\ s.bar < s.song.barCount
    /\ 0 < s.tickSampleCountdown /\ s.tickSampleCountdown <= SamplesPerTick

\* a call from a clock within its ranges stays in the tick, or goes to the
\* next tick of the bar, or from the last tick of a bar to the first of a bar
ClockCarried(before, after) ==
    \/ /\ after.bar = before.bar /\ TickInBar(after) = TickInBar(before)
       /\ after.tickSampleCountdown < before.tickSampleCountdown
    \/ /\ after.bar = before.bar /\ TickInBar(after) = TickInBar(before) + 1
       /\ after.tickSampleCountdown = SamplesPerTick
    \/ /\ TickInBar(before) = TicksPerBar(before.song) - 1 /\ TickInBar(after) = 0
       /\ after.tickSampleCountdown = SamplesPerTick
       /\ after.bar \in {before.bar + 1, before.song.loopStart, 0}

ClockCarriedWitness ==
    /\ pc = "synth" /\ tour.synthesized > 1
    /\ tour.before.tickInBar = TicksPerBar(synth.song) - 1
    /\ TickInBar(synth) = 0 /\ synth.bar = tour.before.bar + 1

\* the playback has come to the end of a bar with this call
BarEnded(before, after) == TickInBar(after) < TickInBar(before)

\* C25: from bar 0 with loopRepeatCount n >= 0 the playback pauses itself when
\* it has played getTotalBars(true, true) bars, as the count was at the start,
\* and not before, with bar = 0 and loopRepeatCount = 0; with loopRepeatCount
\* -1 it never pauses itself; the bar after the last bar of the loop is
\* loopStart while repeats are left or loopRepeatCount is -1.
PlaysTotalBars ==
    /\ [](pc = "synth" =>
            LET total == getTotalBars(synth.song, tour.repeats, TRUE, TRUE)
            IN  IF tour.repeats >= 0
                THEN /\ tour.pausedItself <=> tour.barsPlayed = total
                     /\ tour.barsPlayed <= total
                     /\ tour.pausedItself =>
                            /\ synth.bar = 0 /\ synth.loopRepeatCount = 0
                            /\ ~synth.isPlayingSong
                ELSE /\ ~tour.pausedItself /\ synth.isPlayingSong
                     /\ synth.loopRepeatCount = 0 - 1)
    /\ [][(/\ BarEnded(synth, synth') /\ synth.loopRepeatCount # 0
           /\ synth.bar + 1 = synth.song.loopStart + synth.song.loopLength)
          => synth'.bar = synth.song.loopStart]_vars

\* a playback of two repeats of a song with an intro and an outro that paused
\* itself after its five bars
PlaysTotalBarsWitness ==
    /\ pc = "synth" /\ tour.repeats = 2 /\ tour.pausedItself
    /\ synth.song.loopStart = 1 /\ synth.song.barCount = 3
    /\ tour.barsPlayed = 5

\* an endless playback that went from the loop end back to loopStart
LoopsForeverWitness ==
    /\ pc = "synth" /\ tour.repeats = 0 - 1 /\ tour.barsPlayed = MaxTourBars
    /\ synth.song.barCount = 3 /\ synth.bar = 1

\* ---------------------------------------------------------------------------
\* The Tone objects of a synth whose caller also resets the effects and frees
\* the tones between the audio callbacks.
\* ---------------------------------------------------------------------------

\* the songs followed: released notes, strummed chords, two instruments in a
\* channel, two channels
TonesSongs == {3, 5, 7, 10}

InitTones ==
    /\ pc = "synth"
    /\ \E k \in TonesSongs, loopRepeatCount \in {0 - 1, 0} :
           synth = [NewSynth(SynthSongs[k]) EXCEPT !.loopRepeatCount = loopRepeatCount]
    /\ calls = 0 /\ delay = NaN /\ audio = NaN /\ flash = NaN
    /\ buffer = NaN /\ walk = NaN /\ tour = NaN
    /\ settings = NewFilter /\ legacyArgs = NaN
    /\ input = NaN /\ url = << >> /\ decoded = NaN
    /\ reurl = << >> /\ redecoded = NaN /\ choice = << >>
    /\ writer = NewWriter /\ reader = NoReader /\ ltIn = NaN /\ ltOut = NaN

\* Synth.resetEffects()
ResetEffects ==
    /\ pc = "synth" /\ InCallWindow
    /\ synth' = resetEffects(synth)
    /\ calls' = calls + 1
    /\ UNCHANGED << pc, settings, legacyArgs, delay, audio, flash, buffer, walk, tour,
                    codec, bitio >>

\* Synth.freeAllTones()
FreeAllTones ==
    /\ pc = "synth" /\ InCallWindow
    /\ synth' = freeAllTones(synth)
    /\ calls' = calls + 1
    /\ UNCHANGED << pc, settings, legacyArgs, delay, audio, flash, buffer, walk, tour,
                    codec, bitio >>

NextTones == ResetEffects \/ FreeAllTones \/ Play \/ Pause \/ LiveInput \/ Synthesize

SpecTones == InitTones /\ [][NextTones]_vars

\* the tones of the deques of a sequence, one after the other
RECURSIVE Joined(_)
Joined(deques) ==
    IF deques = << >> THEN << >> ELSE Head(deques) \o Joined(Tail(deques))

\* every tone the synth holds: the pool, the live-input queue, the active
\* queues and the released queues
HeldTones(s) ==
    s.tonePool \o s.liveInputTones
    \o Joined([c \in 1 .. Len(s.channels) |->
          s.channels[c].activeTones
          \o Joined([i \in 1 .. Len(s.channels[c].instruments) |->
                s.channels[c].instruments[i].releasedTones])])

\* C26: every Tone object is in at most one of the pool, the live-input queue,
\* the active queues and the released queues, and there once; every tone held
\* was made by newTone().
TonesHeldOnce ==
    pc = "synth" =>
        LET held == HeldTones(synth)
        IN  /\ \A i, j \in 1 .. Len(held) : held[i].id = held[j].id => i = j
            /\ \A i \in 1 .. Len(held) : held[i].id \in 1 .. synth.made

\* tones in the pool, in the live-input queue, in an active queue and in a
\* released queue at once
TonesHeldOnceWitness ==
    /\ pc = "synth" /\ Len(synth.tonePool) > 0 /\ Len(synth.liveInputTones) > 0
    /\ \E c \in 1 .. Len(synth.channels) :
         /\ Len(synth.channels[c].activeTones) > 0
         /\ \E i \in 1 .. Len(synth.channels[c].instruments) :
              Len(synth.channels[c].instruments[i].releasedTones) > 0
    /\ Len(HeldTones(synth)) = synth.made
    /\ synth.made >= 3

\* ---------------------------------------------------------------------------
\* The pattern encoder and the pattern decoder of one channel, note by note:
\* the encoder writes a note, the decoder reads what was written.
\* ---------------------------------------------------------------------------

\* the notes of a walk
MaxWalk == 13

\* the greatest distance between two uses of a shape, and of a pitch
MaxShapePeriod == 12

MaxPitchPeriod == 10

\* the song of the walk: a bar of beatsPerBarMax beats
WalkSong == [initToDefault(FreshSong, TRUE) EXCEPT !.beatsPerBar = Config.beatsPerBarMax]

\* the format version the encoder writes
WalkVersion == VersionFlags(9)

\* lastPitch, recentPitches and recentShapes at the head of a channel
ChannelStart(isNoiseChannel, octaveOffset) ==
    LET base == IF isNoiseChannel THEN << 4, 6, 7, 2, 3, 8, 0, 10 >>
                ELSE << 12, 19, 24, 31, 36, 7, 0 >>
    IN  [recentShapes |-> << >>,
         recentPitches |-> [k \in 1 .. Len(base) |-> base[k] + octaveOffset],
         lastPitch |-> (IF isNoiseChannel THEN 4 ELSE 12) + octaveOffset]

\* the encoder at the first note of the channel's first pattern
EncoderStart(isNoiseChannel, octaveOffset) ==
    LET start == ChannelStart(isNoiseChannel, octaveOffset)
    IN  [bits |-> NewWriter, shapeBits |-> NewWriter,
         recentShapes |-> start.recentShapes, recentPitches |-> start.recentPitches,
         lastPitch |-> start.lastPitch, strayed |-> FALSE, curPart |-> 0]

\* the decoder at the first note of the channel's first pattern
DecoderStart(isNoiseChannel, octaveOffset) ==
    LET start == ChannelStart(isNoiseChannel, octaveOffset)
    IN  [r |-> NoReader, curPart |-> 0, notes |-> << >>,
         recentShapes |-> start.recentShapes, recentPitches |-> start.recentPitches,
         lastPitch |-> start.lastPitch, threw |-> "none"]

\* note i of the walk k: its shape comes back every k.shapePeriod notes, its
\* pitch every k.pitchPeriod notes; k.chord pitches, a pitch bend if k.bend,
\* a rest before every second note
WalkNote(k, i, curPart) ==
    LET shapeId == i % k.shapePeriod
        expression == shapeId % 4
        length == 1 + shapeId \div 4
        pitch == k.octaveOffset + 10 + 2 * (i % k.pitchPeriod)
        start == curPart + (i % 2)
    IN  [pitches |-> [j \in 1 .. k.chord |-> pitch + 5 * (j - 1)],
         start |-> start, end |-> start + length,
         pins |-> IF k.bend
                  THEN << makeNotePin(0, 0, expression),
                          makeNotePin(3, length, 3 - expression) >>
                  ELSE << makeNotePin(0, 0, expression),
                          makeNotePin(0, length, expression) >>]

\* the shape the decoder makes of the characters the encoder keeps for a shape
ShapeOfString(shapeString) ==
    ReadShape(BitFieldReader(shapeString, 0, Len(shapeString)), WalkSong, WalkVersion,
              WalkSong.beatsPerBar * Config.partsPerBeat).shape

InitWalk ==
    /\ pc = "walk"
    /\ \E shapePeriod \in 1 .. MaxShapePeriod, pitchPeriod \in 1 .. MaxPitchPeriod,
          chord \in 1 .. Config.maxChordSize, bend \in BOOLEAN,
          isNoiseChannel \in BOOLEAN, octave \in {0, 2} :
         LET octaveOffset == IF isNoiseChannel THEN 0 ELSE octave * 12
         IN  walk = [shapePeriod |-> shapePeriod, pitchPeriod |-> pitchPeriod,
                     chord |-> chord, bend |-> bend, octaveOffset |-> octaveOffset,
                     isNoiseChannel |-> isNoiseChannel,
                     i |-> 0, notes |-> << >>, reused |-> FALSE,
                     encoder |-> EncoderStart(isNoiseChannel, octaveOffset),
                     decoder |-> DecoderStart(isNoiseChannel, octaveOffset)]
    /\ settings = NewFilter /\ legacyArgs = NaN /\ synth = NaN /\ calls = 0
    /\ delay = NaN /\ audio = NaN /\ flash = NaN /\ buffer = NaN /\ tour = NaN
    /\ input = NaN /\ url = << >> /\ decoded = NaN
    /\ reurl = << >> /\ redecoded = NaN /\ choice = << >>
    /\ writer = NewWriter /\ reader = NoReader /\ ltIn = NaN /\ ltOut = NaN

\* the encoder writes the next note and the decoder reads it: a turn of the
\* decoder's loop for the rest, if there is one, and one for the note
WalkOneNote ==
    /\ pc = "walk" /\ walk.i < MaxWalk
    /\ LET note == WalkNote(walk, walk.i, walk.encoder.curPart)
           encoded == EncodeNote(walk.encoder, note)
           written == encodeBase64(encoded.bits)
           reading == [walk.decoder EXCEPT
                          !.r = [BitFieldReader(written, 0, Len(written))
                                    EXCEPT !.readIndex = walk.decoder.r.readIndex]]
           turns == IF note.start > walk.encoder.curPart THEN 2 ELSE 1
       IN  walk' = [walk EXCEPT
               !.i = @ + 1, !.notes = Append(@, note),
               !.reused = IndexOf(walk.encoder.recentShapes,
                                  encodeBase64(encoded.shapeBits)) > 0,
               !.encoder = encoded,
               !.decoder = ReadNotes(reading, WalkSong, WalkVersion, turns)]
    /\ UNCHANGED << pc, settings, legacyArgs, synth, calls, delay, audio, flash,
                    buffer, tour, codec, bitio >>

NextWalk == WalkOneNote

SpecWalk == InitWalk /\ [][NextWalk]_vars

\* no entry of the list comes twice
NoRepeats(list) == \A a, b \in 1 .. Len(list) : list[a] = list[b] => a = b

\* C22: after every note the decoder's recentShapes, recentPitches and
\* lastPitch are the encoder's and the notes decoded are the notes encoded;
\* recentShapes never holds more than 10 entries and recentPitches never more
\* than 8; the shape and the pitch used last are at the front of their lists,
\* and nowhere else in them.
DecoderFollowsEncoder ==
    pc = "walk" =>
        LET encoder == walk.encoder
            decoder == walk.decoder
        IN  /\ ~encoder.bits.threw /\ decoder.threw = "none"
            /\ decoder.notes = walk.notes
            /\ decoder.lastPitch = encoder.lastPitch
            /\ decoder.recentPitches = encoder.recentPitches
            /\ Len(decoder.recentShapes) = Len(encoder.recentShapes)
            /\ \A a \in 1 .. Len(encoder.recentShapes) :
                   ShapeOfString(encoder.recentShapes[a]) = decoder.recentShapes[a]
            /\ decoder.curPart = encoder.curPart
            /\ decoder.r.readIndex = encoder.bits.index
            /\ Len(encoder.recentShapes) <= 10 /\ Len(encoder.recentPitches) <= 8
            /\ NoRepeats(encoder.recentShapes) /\ NoRepeats(encoder.recentPitches)
            /\ NoRepeats(decoder.recentShapes)
            /\ walk.i > 0 =>
                 /\ encoder.recentShapes[1] = encodeBase64(encoder.shapeBits)
                 /\ LET note == walk.notes[walk.i]
                        last == Len(note.pins)
                    IN  encoder.recentPitches[1] =
                            IF note.pins[last].interval # 0
                            THEN note.pitches[1] + note.pins[last].interval
                            ELSE note.pitches[Len(note.pitches)]

\* a note whose shape was found in a full recentShapes behind the front, with
\* recentPitches full
DecoderFollowsEncoderWitness ==
    /\ pc = "walk" /\ walk.reused
    /\ Len(walk.encoder.recentShapes) = 10 /\ Len(walk.encoder.recentPitches) = 8
    /\ walk.chord > 1 /\ walk.bend
    /\ walk.decoder.notes = walk.notes

\* C29: while the encoder walks the notes of a channel lastPitch is a member
\* of recentPitches at the end of every turn of the loop over the pitches, and
\* writePitchInterval never has writeLongTail throw.
LastPitchIsRecent ==
    pc = "walk" =>
        /\ ~walk.encoder.strayed
        /\ IndexOf(walk.encoder.recentPitches, walk.encoder.lastPitch) # 0 - 1
        /\ ~walk.encoder.bits.threw

\* a chord of maxChordSize pitches: lastPitch is its first pitch, behind the
\* front of a full recentPitches
LastPitchIsRecentWitness ==
    /\ pc = "walk" /\ walk.i > 2 /\ walk.chord = Config.maxChordSize /\ ~walk.bend
    /\ Len(walk.encoder.recentPitches) = 8
    /\ IndexOf(walk.encoder.recentPitches, walk.encoder.lastPitch)
           = Config.maxChordSize - 1

====
